---------------------------- MODULE Spec2Model ----------------------------
(***************************************************************************)
(* A model of Kernel::Evaluator (ao/src/eval/evaluator.cpp): the tape      *)
(* built from a flattened tree, the Result arena, the tape stack with its  *)
(* disabled/remap scratch arrays, and the evaluation kernels.              *)
(*                                                                         *)
(* Floats are modelled by integers (every input is an integer and the      *)
(* opcodes of the modelled trees are closed over the integers), intervals  *)
(* by records [lower, upper], Eigen vectors by 3-tuples.  A failed assert  *)
(* aborts the program: the action sets err and nothing is enabled after.   *)
(***************************************************************************)
EXTENDS Integers, Sequences, FiniteSets, TLC

(***************************************************************************)
(* Bounds of the model.                                                    *)
(***************************************************************************)
\* the x coordinate of points and box corners ranges over 0..MaxCoord
MaxCoord == 1
\* the tape stack is driven to at most MaxDepth tapes above the base tape
MaxDepth == 2
\* features handed to push(Feature) carry at most MaxChoices choices
MaxChoices == 2

(***************************************************************************)
(* Small helpers.                                                          *)
(***************************************************************************)
Min2(a, b) == IF a < b THEN a ELSE b
Max2(a, b) == IF a < b THEN b ELSE a
Abs(a) == IF a < 0 THEN -a ELSE a

Coord == 0..MaxCoord
\* Eigen::Vector3f points on the x axis: y and z are 0
Points == Coord \X {0} \X {0}
\* boxes (lower, upper) with lower <= upper on every axis
Boxes == {b \in [lower : Points, upper : Points] :
            \A k \in 1..3 : b.lower[k] <= b.upper[k]}

Ival(l, u) == [lower |-> l, upper |-> u]

(***************************************************************************)
(* Opcodes (Opcode::Opcode).  Leaf opcodes have rank 0.                    *)
(***************************************************************************)
LeafOps == {"CONST", "VAR", "VAR_X", "VAR_Y", "VAR_Z"}
IsMinMax(op) == op = "MIN" \/ op = "MAX"

(***************************************************************************)
(* Trees, as root.ordered() hands them to the constructor: a sequence of   *)
(* nodes, children before parents; lhs and rhs are positions in the        *)
(* sequence (the node's Tree::Id), 0 for nullptr; value is the CONST       *)
(* value.                                                                  *)
(***************************************************************************)
Node(op, lhs, rhs, value) == [op |-> op, lhs |-> lhs, rhs |-> rhs, value |-> value]
Leaf(op) == Node(op, 0, 0, 0)

\* max(min(x, 1), x - 1): nested MIN/MAX
TreeNested ==
    << Leaf("VAR_X"), Node("CONST", 0, 0, 1),
       Node("SUB", 1, 2, 0), Node("MIN", 1, 2, 0), Node("MAX", 4, 3, 0) >>

\* min(m - x, m * x) with the shared subtree m = max(x, 1)
TreeShared ==
    << Leaf("VAR_X"), Node("CONST", 0, 0, 1), Node("MAX", 1, 2, 0),
       Node("SUB", 3, 1, 0), Node("MUL", 3, 1, 0), Node("MIN", 4, 5, 0) >>

\* mod(-(x^2), v) with the free variable v
TreeMod ==
    << Leaf("VAR_X"), Leaf("VAR"),
       Node("SQUARE", 1, 0, 0), Node("NEG", 3, 0, 0), Node("MOD", 4, 2, 0) >>

\* min(x, v) with the free variable v
TreeVarMin == << Leaf("VAR_X"), Leaf("VAR"), Node("MIN", 1, 2, 0) >>

\* max(min(x, 0), x): both clauses are tied at x = 0
TreeTies ==
    << Leaf("VAR_X"), Node("CONST", 0, 0, 0), Node("MIN", 1, 2, 0),
       Node("MAX", 3, 1, 0) >>

\* the single axis x
TreeAxis == << Leaf("VAR_X") >>

\* min(x, 1)
TreeMin == << Leaf("VAR_X"), Node("CONST", 0, 0, 1), Node("MIN", 1, 2, 0) >>

\* values a free variable is given (at construction and by setVar)
VarVals == {-2, 1}

\* the Tree::Ids of the VAR nodes of a tree
VarIds(flat) == {k \in 1..Len(flat) : flat[k].op = "VAR"}

(***************************************************************************)
(* Evaluator::Evaluator: slot assignment.  id starts at flat.size() and    *)
(* is decremented per node, so the node at position k gets n - k + 1 and   *)
(* nullptr gets 0.                                                         *)
(***************************************************************************)
ClauseIdOf(flat, k) == IF k = 0 THEN 0 ELSE Len(flat) - k + 1

\* newClause: the clause of the interior node at position k
NewClause(flat, k) ==
    [op |-> flat[k].op, id |-> ClauseIdOf(flat, k),
     a |-> ClauseIdOf(flat, flat[k].lhs), b |-> ClauseIdOf(flat, flat[k].rhs)]

\* a constructor that makes a clause for the CONST nodes too
RECURSIVE BuildTapeWithConsts(_, _)
BuildTapeWithConsts(flat, k) ==
    IF k = 0 THEN << >>
    ELSE IF flat[k].op \in LeafOps \ {"CONST"} THEN BuildTapeWithConsts(flat, k - 1)
         ELSE << NewClause(flat, k) >> \o BuildTapeWithConsts(flat, k - 1)

\* tape_: push_front for every node of rank > 0, walking flat in order,
\* then copied front to back into the vector tape
RECURSIVE BuildTapeFrom(_, _)
BuildTapeFrom(flat, k) ==
    IF k = 0 THEN << >>
    ELSE IF flat[k].op \in LeafOps THEN BuildTapeFrom(flat, k - 1)
         ELSE << NewClause(flat, k) >> \o BuildTapeFrom(flat, k - 1)

BuildTape(flat) == BuildTapeFrom(flat, Len(flat))

\* position of the axis node in flat, 0 when the tree does not use the axis
AxisPos(flat, op) ==
    IF \E k \in 1..Len(flat) : flat[k].op = op
    THEN CHOOSE k \in 1..Len(flat) : flat[k].op = op
    ELSE 0

\* the two orders in which "clauses[a.id()] = clauses.size()" may be
\* evaluated: size() read before operator[] inserts the key, or after
SizeOrders == {"size_first", "insert_first"}

\* an axis allocation that gives every absent axis the same slot
AxisSlotShared(flat, axes, k, order) ==
    IF AxisPos(flat, axes[k]) # 0
    THEN ClauseIdOf(flat, AxisPos(flat, axes[k]))
    ELSE Len(flat) + 1 + (IF order = "insert_first" THEN 1 ELSE 0)

\* "Make sure that X, Y, Z have been allocated space": the clauses map holds
\* nullptr and every node, and an absent axis gets clauses.size() as its slot
\* (axes is the sequence of axis opcodes, k the axis asked for)
AxisSlot(flat, axes, k, order) ==
    LET missingBefore == Cardinality({j \in 1..(k - 1) : AxisPos(flat, axes[j]) = 0})
    IN  IF AxisPos(flat, axes[k]) # 0
        THEN ClauseIdOf(flat, AxisPos(flat, axes[k]))
        ELSE Len(flat) + 1 + missingBefore
                + (IF order = "insert_first" THEN 1 ELSE 0)

AxisOps == << "VAR_X", "VAR_Y", "VAR_Z" >>

\* clauses.size() after the axes were added
ClausesSize(flat) ==
    Len(flat) + 1 + Cardinality({j \in 1..3 : AxisPos(flat, AxisOps[j]) = 0})

\* the arena and the scratch arrays have clauses.size() + 1 slots: 0..size
Slots(flat) == 0..ClausesSize(flat)

\* vars.left: slot -> Tree::Id, iterated in slot order; the index of a
\* variable's slot in that order (0-based in the code, 1-based here)
VarSlots(flat) == {ClauseIdOf(flat, k) : k \in VarIds(flat)}
VarIndex(flat, s) == Cardinality({t \in VarSlots(flat) : t <= s})
NumVars(flat) == Cardinality(VarIds(flat))

(***************************************************************************)
(* Per-clause rules of the kernels.                                        *)
(***************************************************************************)
\* std::fmod on integers: the remainder has the sign of a
FMod(a, b) == LET r == Abs(a) % Abs(b) IN IF a < 0 THEN -r ELSE r

\* the MOD loop "while (out < 0) out += b" diverges when out < 0 and b < 0
ModHangs(a, b) == FMod(a, b) < 0 /\ b < 0

\* the MOD loop: add b until non-negative
RECURSIVE ModLoop(_, _)
ModLoop(out, b) == IF out < 0 THEN ModLoop(out + b, b) ELSE out

\* a values() whose MIN clause takes the larger operand
ValueOpMinAsMax(op, a, b) ==
    CASE op = "ADD" -> a + b
      [] op = "MUL" -> a * b
      [] op = "MIN" -> Max2(a, b)
      [] op = "MAX" -> Max2(a, b)
      [] op = "SUB" -> a - b
      [] op = "MOD" -> ModLoop(FMod(a, b), b)
      [] op = "SQUARE" -> a * a
      [] op = "NEG" -> -a

\* Evaluator::values, one clause
ValueOp(op, a, b) ==
    CASE op = "ADD" -> a + b
      [] op = "MUL" -> a * b
      [] op = "MIN" -> Min2(a, b)
      [] op = "MAX" -> Max2(a, b)
      [] op = "SUB" -> a - b
      [] op = "MOD" -> ModLoop(FMod(a, b), b)
      [] op = "SQUARE" -> a * a
      [] op = "NEG" -> -a

\* Evaluator::eval_clause_interval (the interval primitives on integers)
IntervalOp(op, a, b) ==
    CASE op = "ADD" -> Ival(a.lower + b.lower, a.upper + b.upper)
      [] op = "MUL" ->
            LET ps == {a.lower * b.lower, a.lower * b.upper,
                       a.upper * b.lower, a.upper * b.upper}
            IN  Ival(CHOOSE m \in ps : \A q \in ps : m <= q,
                     CHOOSE m \in ps : \A q \in ps : m >= q)
      [] op = "MIN" -> Ival(Min2(a.lower, b.lower), Min2(a.upper, b.upper))
      [] op = "MAX" -> Ival(Max2(a.lower, b.lower), Max2(a.upper, b.upper))
      [] op = "SUB" -> Ival(a.lower - b.upper, a.upper - b.lower)
      [] op = "MOD" -> Ival(0, b.upper)
      [] op = "SQUARE" ->
            IF a.lower >= 0 THEN Ival(a.lower * a.lower, a.upper * a.upper)
            ELSE IF a.upper <= 0 THEN Ival(a.upper * a.upper, a.lower * a.lower)
            ELSE Ival(0, Max2(a.lower * a.lower, a.upper * a.upper))
      [] op = "NEG" -> Ival(-a.upper, -a.lower)

\* Evaluator::derivs, one clause and one of dx, dy, dz
DerivOp(op, av, bv, ad, bd) ==
    CASE op = "ADD" -> ad + bd
      [] op = "MUL" -> av * bd + ad * bv
      [] op = "MIN" -> IF av < bv THEN ad ELSE bd
      [] op = "MAX" -> IF av < bv THEN bd ELSE ad
      [] op = "SUB" -> ad - bd
      [] op = "MOD" -> ad
      [] op = "SQUARE" -> 2 * av * ad
      [] op = "NEG" -> -ad

\* Evaluator::eval_clause_jacobians, one clause (JAC_LOOP over the variables)
JacobianOp(op, av, aj, bv, bj) ==
    [k \in DOMAIN aj |-> DerivOp(op, av, bv, aj[k], bj[k])]


(***************************************************************************)
(* The state of an Evaluator.                                              *)
(*   flat            the flattened tree the evaluator was built from       *)
(*   tapes, tape     the tape stack and the cursor (an index into tapes;   *)
(*                   1 is tapes.begin(), the base tape)                    *)
(*   result          the Result arena: f (column 0 of the value rows),     *)
(*                   dx, dy, dz, i (intervals), j (Jacobians), per slot    *)
(*   disabled, remap the scratch arrays of push                            *)
(*   X, Y, Z         the cached axis slots                                 *)
(*   vars            vars.left: variable slot -> Tree::Id                  *)
(*   err             "ok", or the assertion that aborted the program       *)
(*   fa              the frame of featuresAt: its position pc, its caller  *)
(*                   (the user or isInside), the point, todo, done and     *)
(*                   seen; once it has returned, done is the list it       *)
(*                   returned                                              *)
(* History variables, read only by the properties:                         *)
(*   last            the last operation, the tape it evaluated on (for     *)
(*                   isInside and updateVars: the value returned, 1 for    *)
(*                   true, 0 for false, 2 while isInside is running) and,  *)
(*                   for push(Feature), the choices it was given           *)
(*   ghost           for the base tape and every tape up to the cursor:    *)
(*                   length, root and type of its parent when it was       *)
(*                   pushed, whether the push read fresh intervals, the    *)
(*                   point of a specialize and the value eval gave there   *)
(***************************************************************************)
VARIABLES flat, tapes, tape, result, disabled, remap, X, Y, Z, vars, err, fa,
          last, ghost

allvars == << flat, tapes, tape, result, disabled, remap, X, Y, Z, vars, err, fa,
              last, ghost >>

\* Tape(): a default-constructed tape
NewTape == [t |-> << >>, i |-> 0, type |-> "ORIGINAL",
            X |-> Ival(0, 0), Y |-> Ival(0, 0), Z |-> Ival(0, 0)]

\* Feature: the choices (id, choice) in order, the epsilons by clause id,
\* and the derivative
NoEps == [k \in {} |-> << 0, 0, 0 >>]
FeatureOf(choices) == [choices |-> choices, eps |-> NoEps, deriv |-> << 0, 0, 0 >>]

\* depth is the position of the cursor when featuresAt or isInside was called
Idle == [pc |-> "idle", caller |-> "", p |-> << 0, 0, 0 >>, todo |-> << >>,
         done |-> << >>, seen |-> {}, depth |-> 0]

Last(op, sel) == [op |-> op, sel |-> sel, choices |-> << >>]
Summary(tp) == [len |-> Len(tp.t), i |-> tp.i, type |-> tp.type]
Ghost(tp, sound, pt, val) ==
    [saved |-> Summary(tp), sound |-> sound, pt |-> pt, val |-> val]
NoGhost == Ghost(NewTape, FALSE, << 0, 0, 0 >>, 0)

(***************************************************************************)
(* Evaluator::Evaluator                                                    *)
(***************************************************************************)
\* the constants map: CONST values and the initial values of the variables
ConstantsAt(fl, vs, s) ==
    LET k == Len(fl) - s + 1
    IN  IF s \in 1..Len(fl) /\ fl[k].op = "CONST" THEN fl[k].value
        ELSE IF s \in 1..Len(fl) /\ fl[k].op = "VAR" THEN vs[k]
        ELSE 0

\* result after the constructor: constants filled, the derivatives of the
\* axes and the Jacobian basis vectors of the variables set
InitResult(fl, vs, order) ==
    [f  |-> [s \in Slots(fl) |-> ConstantsAt(fl, vs, s)],
     dx |-> [s \in Slots(fl) |-> IF s = AxisSlot(fl, AxisOps, 1, order) THEN 1 ELSE 0],
     dy |-> [s \in Slots(fl) |-> IF s = AxisSlot(fl, AxisOps, 2, order) THEN 1 ELSE 0],
     dz |-> [s \in Slots(fl) |-> IF s = AxisSlot(fl, AxisOps, 3, order) THEN 1 ELSE 0],
     i  |-> [s \in Slots(fl) |-> Ival(ConstantsAt(fl, vs, s), ConstantsAt(fl, vs, s))],
     j  |-> [s \in Slots(fl) |->
                [k \in 1..NumVars(fl) |->
                    IF s \in VarSlots(fl) /\ VarIndex(fl, s) = k THEN 1 ELSE 0]]]

Construct(fl, vs, order) ==
    /\ flat = fl
    /\ tapes = << [NewTape EXCEPT !.t = BuildTape(fl),
                                  !.i = ClauseIdOf(fl, Len(fl))] >>
    /\ tape = 1
    /\ result = InitResult(fl, vs, order)
    /\ disabled = [s \in Slots(fl) |-> FALSE]
    /\ remap = [s \in Slots(fl) |-> 0]
    /\ X = AxisSlot(fl, AxisOps, 1, order)
    /\ Y = AxisSlot(fl, AxisOps, 2, order)
    /\ Z = AxisSlot(fl, AxisOps, 3, order)
    /\ vars = [s \in VarSlots(fl) |-> Len(fl) - s + 1]
    /\ err = "ok"
    /\ fa = Idle
    /\ last = Last("init", 0)
    /\ ghost = << NoGhost >>

\* the evaluators of a set of trees, for every initial value of the variables
InitOf(trees) ==
    \E fl \in trees : \E vs \in [VarIds(fl) -> VarVals] :
        \E order \in SizeOrders : Construct(fl, vs, order)

(***************************************************************************)
(* The kernels, as sweeps from the back of a tape to its front.            *)
(***************************************************************************)
\* set(p, 0): the point goes to column 0 of the axis rows
SetPoint(f, p) == [f EXCEPT ![X] = p[1], ![Y] = p[2], ![Z] = p[3]]

\* set(lower, upper)
SetBox(iv, b) == [iv EXCEPT ![X] = Ival(b.lower[1], b.upper[1]),
                            ![Y] = Ival(b.lower[2], b.upper[2]),
                            ![Z] = Ival(b.lower[3], b.upper[3])]

\* Evaluator::values: the value rows after the sweep over clauses k..1
RECURSIVE ValuesFrom(_, _, _)
ValuesFrom(t, f, k) ==
    IF k = 0 THEN f
    ELSE ValuesFrom(t, [f EXCEPT ![t[k].id] = ValueOp(t[k].op, f[t[k].a], f[t[k].b])],
                    k - 1)

\* whether the sweep reaches a MOD clause whose loop never ends
RECURSIVE HangsFrom(_, _, _)
HangsFrom(t, f, k) ==
    IF k = 0 THEN FALSE
    ELSE IF t[k].op = "MOD" /\ ModHangs(f[t[k].a], f[t[k].b]) THEN TRUE
    ELSE HangsFrom(t, [f EXCEPT ![t[k].id] = ValueOp(t[k].op, f[t[k].a], f[t[k].b])],
                   k - 1)

Values(tp, f) == ValuesFrom(tp.t, f, Len(tp.t))
ValuesHang(tp, f) == HangsFrom(tp.t, f, Len(tp.t))

\* Evaluator::interval
RECURSIVE IntervalFrom(_, _, _)
IntervalFrom(t, iv, k) ==
    IF k = 0 THEN iv
    ELSE IntervalFrom(t, [iv EXCEPT ![t[k].id] =
                                IntervalOp(t[k].op, iv[t[k].a], iv[t[k].b])], k - 1)

Interval(tp, iv) == IntervalFrom(tp.t, iv, Len(tp.t))

\* a derivative sweep that writes the row of the left operand
RECURSIVE DerivsIntoOperand(_, _, _)
DerivsIntoOperand(t, r, k) ==
    IF k = 0 THEN r
    ELSE LET c == t[k]
             av == r.f[c.a]
             bv == r.f[c.b]
         IN  DerivsIntoOperand(t,
                [r EXCEPT !.dx[c.a] = DerivOp(c.op, av, bv, r.dx[c.a], r.dx[c.b]),
                          !.dy[c.a] = DerivOp(c.op, av, bv, r.dy[c.a], r.dy[c.b]),
                          !.dz[c.a] = DerivOp(c.op, av, bv, r.dz[c.a], r.dz[c.b])],
                k - 1)

\* Evaluator::derivs: the second sweep, over the values already computed
RECURSIVE DerivsFrom(_, _, _)
DerivsFrom(t, r, k) ==
    IF k = 0 THEN r
    ELSE LET c == t[k]
             av == r.f[c.a]
             bv == r.f[c.b]
         IN  DerivsFrom(t,
                [r EXCEPT !.dx[c.id] = DerivOp(c.op, av, bv, r.dx[c.a], r.dx[c.b]),
                          !.dy[c.id] = DerivOp(c.op, av, bv, r.dy[c.a], r.dy[c.b]),
                          !.dz[c.id] = DerivOp(c.op, av, bv, r.dz[c.a], r.dz[c.b])],
                k - 1)

\* Evaluator::gradient: the sweep over the Jacobians
RECURSIVE JacobiansFrom(_, _, _)
JacobiansFrom(t, r, k) ==
    IF k = 0 THEN r
    ELSE LET c == t[k]
         IN  JacobiansFrom(t,
                [r EXCEPT !.j[c.id] =
                    JacobianOp(c.op, r.f[c.a], r.j[c.a], r.f[c.b], r.j[c.b])],
                k - 1)


(***************************************************************************)
(* The tape-stack engine.                                                  *)
(***************************************************************************)
\* a remap lookup that follows one link only
RemapOneLink(rm, s) == IF rm[s] # 0 THEN rm[s] ELSE s

\* "for (ra = c.a; remap[ra]; ra = remap[ra]);"
RECURSIVE RemapEnd(_, _)
RemapEnd(rm, s) == IF rm[s] # 0 THEN RemapEnd(rm, rm[s]) ELSE s

\* a pushTape loop that copies the operands as they are
RECURSIVE FilterTapeNoRemap(_, _, _, _)
FilterTapeNoRemap(t, dis, rm, k) ==
    IF k > Len(t) THEN << >>
    ELSE IF ~dis[t[k].id]
         THEN << t[k] >> \o FilterTapeNoRemap(t, dis, rm, k + 1)
         ELSE FilterTapeNoRemap(t, dis, rm, k + 1)

\* a pushTape loop that copies the disabled clauses too
RECURSIVE FilterTapeKeepAll(_, _, _, _)
FilterTapeKeepAll(t, dis, rm, k) ==
    IF k > Len(t) THEN << >>
    ELSE << [op |-> t[k].op, id |-> t[k].id,
             a |-> RemapEnd(rm, t[k].a), b |-> RemapEnd(rm, t[k].b)] >>
         \o FilterTapeKeepAll(t, dis, rm, k + 1)

\* a pushTape loop that puts each clause in front of the ones already copied
RECURSIVE FilterTapeReversed(_, _, _, _)
FilterTapeReversed(t, dis, rm, k) ==
    IF k > Len(t) THEN << >>
    ELSE IF ~dis[t[k].id]
         THEN FilterTapeReversed(t, dis, rm, k + 1)
              \o << [op |-> t[k].op, id |-> t[k].id,
                     a |-> RemapEnd(rm, t[k].a), b |-> RemapEnd(rm, t[k].b)] >>
         ELSE FilterTapeReversed(t, dis, rm, k + 1)

\* the loop of pushTape over prev_tape->t: the clauses that are not
\* disabled, in order, with their operands remapped
RECURSIVE FilterTape(_, _, _, _)
FilterTape(t, dis, rm, k) ==
    IF k > Len(t) THEN << >>
    ELSE IF ~dis[t[k].id]
         THEN << [op |-> t[k].op, id |-> t[k].id,
                  a |-> RemapEnd(rm, t[k].a), b |-> RemapEnd(rm, t[k].b)] >>
              \o FilterTape(t, dis, rm, k + 1)
         ELSE FilterTape(t, dis, rm, k + 1)

\* pushTape filtering the parent tape in place as well as into the new tape
PushTapeInPlace(tps, cur, dis, rm, type) ==
    LET prev == tps[cur]
        old  == IF cur + 1 > Len(tps) THEN NewTape ELSE tps[cur + 1]
        new  == [old EXCEPT !.t = FilterTape(prev.t, dis, rm, 1),
                            !.type = type,
                            !.i = RemapEnd(rm, prev.i)]
        kept == [tps EXCEPT ![cur].t = FilterTape(prev.t, dis, rm, 1)]
    IN  IF cur + 1 > Len(tps) THEN Append(kept, new)
        ELSE [kept EXCEPT ![cur + 1] = new]

\* a pushTape that inserts a tape on every call and reuses none
PushTapeAlwaysInsert(tps, cur, dis, rm, type) ==
    Append(tps, [NewTape EXCEPT !.t = FilterTape(tps[cur].t, dis, rm, 1),
                                !.type = type,
                                !.i = RemapEnd(rm, tps[cur].i)])

\* Evaluator::pushTape: the tape stack after the push (the new cursor is
\* cur + 1).  A tape already at cur + 1 is reused: its clauses are cleared,
\* its box is kept; otherwise a new tape is inserted.
PushTape(tps, cur, dis, rm, type) ==
    LET prev == tps[cur]
        old  == IF cur + 1 > Len(tps) THEN NewTape ELSE tps[cur + 1]
        new  == [old EXCEPT !.t = FilterTape(prev.t, dis, rm, 1),
                            !.type = type,
                            !.i = RemapEnd(rm, prev.i)]
    IN  IF cur + 1 > Len(tps) THEN Append(tps, new)
        ELSE [tps EXCEPT ![cur + 1] = new]

\* "assert(tape->t.size() <= prev_tape->t.size())"
TapeGotShorter(tps, cur) == Len(tps[cur + 1].t) <= Len(tps[cur].t)

\* a push() that also collapses when the two intervals touch
IntervalChoiceClosed(c, iv) ==
    IF c.op = "MAX"
    THEN IF iv[c.a].lower >= iv[c.b].upper THEN "a"
         ELSE IF iv[c.b].lower >= iv[c.a].upper THEN "b" ELSE "none"
    ELSE IF c.op = "MIN"
    THEN IF iv[c.a].lower >= iv[c.b].upper THEN "b"
         ELSE IF iv[c.b].lower >= iv[c.a].upper THEN "a" ELSE "none"
    ELSE "none"

\* push() keeping the dominated operand instead of the dominating one
IntervalChoiceSwapped(c, iv) ==
    IF c.op = "MAX"
    THEN IF iv[c.a].lower > iv[c.b].upper THEN "b"
         ELSE IF iv[c.b].lower > iv[c.a].upper THEN "a" ELSE "none"
    ELSE IF c.op = "MIN"
    THEN IF iv[c.a].lower > iv[c.b].upper THEN "a"
         ELSE IF iv[c.b].lower > iv[c.a].upper THEN "b" ELSE "none"
    ELSE "none"

\* the branch a live MIN or MAX clause is collapsed to by push(): "a", "b"
\* or "none"
IntervalChoice(c, iv) ==
    IF c.op = "MAX"
    THEN IF iv[c.a].lower > iv[c.b].upper THEN "a"
         ELSE IF iv[c.b].lower > iv[c.a].upper THEN "b" ELSE "none"
    ELSE IF c.op = "MIN"
    THEN IF iv[c.a].lower > iv[c.b].upper THEN "b"
         ELSE IF iv[c.b].lower > iv[c.a].upper THEN "a" ELSE "none"
    ELSE "none"

\* specialize() keeping the dominated operand
SpecializeChoiceSwapped(c, f) ==
    IF c.op = "MAX"
    THEN IF f[c.a] > f[c.b] THEN "b"
         ELSE IF f[c.b] > f[c.a] THEN "a" ELSE "none"
    ELSE IF c.op = "MIN"
    THEN IF f[c.a] > f[c.b] THEN "a"
         ELSE IF f[c.b] > f[c.a] THEN "b" ELSE "none"
    ELSE "none"

\* the same for specialize(): float comparisons of column 0
SpecializeChoice(c, f) ==
    IF c.op = "MAX"
    THEN IF f[c.a] > f[c.b] THEN "a"
         ELSE IF f[c.b] > f[c.a] THEN "b" ELSE "none"
    ELSE IF c.op = "MIN"
    THEN IF f[c.a] > f[c.b] THEN "b"
         ELSE IF f[c.b] > f[c.a] THEN "a" ELSE "none"
    ELSE "none"

\* what the body of "if (!disabled[c.id])" does to disabled and remap once
\* the branch is chosen
Collapse(sc, c, ch) ==
    LET s1 == IF ch = "a"
              THEN [sc EXCEPT !.disabled[c.a] = FALSE, !.remap[c.id] = c.a]
              ELSE IF ch = "b"
              THEN [sc EXCEPT !.disabled[c.b] = FALSE, !.remap[c.id] = c.b]
              ELSE sc
    IN  IF s1.remap[c.id] = 0
        THEN [s1 EXCEPT !.disabled[c.a] = FALSE, !.disabled[c.b] = FALSE]
        ELSE [s1 EXCEPT !.disabled[c.id] = TRUE]

\* the scratch arrays as push resets them: all disabled but the root
ResetScratch(root) ==
    [disabled |-> [s \in DOMAIN disabled |-> s # root],
     remap |-> [s \in DOMAIN remap |-> 0]]

\* the clause walk of push()
RECURSIVE PushWalk(_, _, _, _)
PushWalk(t, iv, sc, k) ==
    IF k > Len(t) THEN sc
    ELSE IF sc.disabled[t[k].id] THEN PushWalk(t, iv, sc, k + 1)
    ELSE PushWalk(t, iv, Collapse(sc, t[k], IntervalChoice(t[k], iv)), k + 1)

\* the clause walk of specialize()
RECURSIVE SpecializeWalk(_, _, _, _)
SpecializeWalk(t, f, sc, k) ==
    IF k > Len(t) THEN sc
    ELSE IF sc.disabled[t[k].id] THEN SpecializeWalk(t, f, sc, k + 1)
    ELSE SpecializeWalk(t, f, Collapse(sc, t[k], SpecializeChoice(t[k], f)), k + 1)

\* a match that does not ask for tied operands
MatchUntied(c, f, choices, itr) ==
    /\ IsMinMax(c.op)
    /\ itr <= Len(choices)
    /\ choices[itr].id = c.id

\* "match" of push(Feature): the clause is a tied MIN/MAX and the next
\* unconsumed choice names it (itr is the index of that choice)
Match(c, f, choices, itr) ==
    /\ (f[c.a] = f[c.b] \/ c.a = c.b)
    /\ IsMinMax(c.op)
    /\ itr <= Len(choices)
    /\ choices[itr].id = c.id

\* the clause walk of push(Feature): sc carries disabled, remap, the choice
\* iterator itr and the feature out
RECURSIVE FeatureWalk(_, _, _, _, _)
FeatureWalk(t, f, ft, sc, k) ==
    IF k > Len(t) THEN sc
    ELSE LET c == t[k]
             match == Match(c, f, ft.choices, sc.itr)
             ch == IF ~match THEN "none"
                   ELSE IF ft.choices[sc.itr].choice = 0 THEN "a" ELSE "b"
             s1 == IF sc.disabled[c.id] THEN sc
                   ELSE LET s0 == Collapse(sc, c, ch)
                        IN  IF ~match THEN s0
                            ELSE [s0 EXCEPT
                                    !.out.choices = Append(@, ft.choices[sc.itr]),
                                    !.out.eps = IF c.id \in DOMAIN ft.eps
                                                THEN (c.id :> ft.eps[c.id]) @@ @
                                                ELSE @]
             s2 == IF match THEN [s1 EXCEPT !.itr = @ + 1] ELSE s1
         IN  FeatureWalk(t, f, ft, s2, k + 1)


(***************************************************************************)
(* The operations, as the effect of each on the evaluator.                 *)
(***************************************************************************)
\* the history entry of the tape that a push creates at cur + 1
SetGhost(g, cur, e) == Append(SubSeq(g, 1, cur), e)

\* whether the intervals in the arena were computed on the current tape
IvalFresh == last.op = "interval"

\* eval(p) on tape k: set(p, 0), then values(1)
EvalHangs(k, p) == ValuesHang(tapes[k], SetPoint(result.f, p))
EvalF(k, p) == Values(tapes[k], SetPoint(result.f, p))

\* pushTape and its final assert
DoPushTape(sc, type) ==
    LET tps == PushTape(tapes, tape, sc.disabled, sc.remap, type)
    IN  /\ disabled' = sc.disabled
        /\ remap' = sc.remap
        /\ tapes' = tps
        /\ tape' = tape + 1
        /\ err' = IF TapeGotShorter(tps, tape) THEN err ELSE "tape_grew"

\* push(): the walk over the intervals, pushTape(INTERVAL), then the box
DoPush ==
    LET sc  == PushWalk(tapes[tape].t, result.i, ResetScratch(tapes[tape].i), 1)
        tps == PushTape(tapes, tape, sc.disabled, sc.remap, "INTERVAL")
    IN  /\ disabled' = sc.disabled
        /\ remap' = sc.remap
        /\ tape' = tape + 1
        /\ IF TapeGotShorter(tps, tape)
           THEN /\ tapes' = [tps EXCEPT ![tape + 1].X = result.i[X],
                                        ![tape + 1].Y = result.i[Y],
                                        ![tape + 1].Z = result.i[Z]]
                /\ err' = err
           ELSE /\ tapes' = tps
                /\ err' = "tape_grew"
        /\ ghost' = SetGhost(ghost, tape,
                             Ghost(tapes[tape], IvalFresh, << 0, 0, 0 >>, 0))

\* the walk of push(Feature) over the current tape
FeatureScan(ft) ==
    FeatureWalk(tapes[tape].t, result.f, ft,
                ResetScratch(tapes[tape].i) @@
                    [itr |-> 1, out |-> [FeatureOf(<< >>) EXCEPT !.deriv = ft.deriv]],
                1)

\* "assert(itr == choices.end())"
AllConsumed(ft) == FeatureScan(ft).itr = Len(ft.choices) + 1

\* push(Feature): the walk, the assert, pushTape(FEATURE)
DoPushFeature(ft) ==
    LET sc == FeatureScan(ft)
    IN  IF ~AllConsumed(ft)
        THEN /\ disabled' = sc.disabled
             /\ remap' = sc.remap
             /\ err' = "choice_underrun"
             /\ UNCHANGED << tapes, tape, ghost >>
        ELSE /\ DoPushTape(sc, "FEATURE")
             /\ ghost' = SetGhost(ghost, tape,
                                  Ghost(tapes[tape], TRUE, << 0, 0, 0 >>, 0))

\* specialize(p): eval(p), the walk over the values, pushTape(SPECIALIZED)
DoSpecialize(p) ==
    IF EvalHangs(tape, p)
    THEN /\ result' = [result EXCEPT !.f = SetPoint(result.f, p)]
         /\ err' = "values_hang"
         /\ UNCHANGED << tapes, tape, disabled, remap, ghost >>
    ELSE LET f2 == EvalF(tape, p)
             sc == SpecializeWalk(tapes[tape].t, f2, ResetScratch(tapes[tape].i), 1)
         IN  /\ result' = [result EXCEPT !.f = f2]
             /\ DoPushTape(sc, "SPECIALIZED")
             /\ ghost' = SetGhost(ghost, tape,
                                  Ghost(tapes[tape], TRUE, p, f2[tapes[tape].i]))

\* pop() without its assertion
DoPopUnchecked ==
    /\ err' = err
    /\ tape' = tape - 1
    /\ ghost' = SubSeq(ghost, 1, tape - 1)

\* pop(): "assert(tape != tapes.begin()); tape--;"
DoPop ==
    IF tape = 1
    THEN /\ err' = "pop_underflow"
         /\ UNCHANGED << tape, ghost >>
    ELSE /\ err' = err
         /\ tape' = tape - 1
         /\ ghost' = SubSeq(ghost, 1, tape - 1)

\* whether the box stored on a tape contains p, bounds included
BoxContains(tp, p) ==
    /\ p[1] >= tp.X.lower /\ p[1] <= tp.X.upper
    /\ p[2] >= tp.Y.lower /\ p[2] <= tp.Y.upper
    /\ p[3] >= tp.Z.lower /\ p[3] <= tp.Z.upper

\* the walk of baseEval stopping at any tape whose box contains p
RECURSIVE BaseTapeAnyType(_, _, _)
BaseTapeAnyType(tps, k, p) ==
    IF k = 1 THEN 1
    ELSE IF BoxContains(tps[k], p) THEN k
    ELSE BaseTapeAnyType(tps, k - 1, p)

\* the walk of baseEval from the cursor k toward tapes.begin(): the tape it
\* stops at
RECURSIVE BaseTape(_, _, _)
BaseTape(tps, k, p) ==
    IF k = 1 THEN 1
    ELSE IF tps[k].type = "INTERVAL" /\ BoxContains(tps[k], p) THEN k
    ELSE BaseTape(tps, k - 1, p)

(***************************************************************************)
(* The operations as a caller invokes them.  A caller drives the stack to  *)
(* at most MaxDepth tapes above the base.                                  *)
(***************************************************************************)
Ready == err = "ok" /\ fa.pc = "idle"

\* eval(p)
Eval(p) ==
    /\ Ready
    /\ IF EvalHangs(tape, p)
       THEN /\ result' = [result EXCEPT !.f = SetPoint(result.f, p)]
            /\ err' = "values_hang"
       ELSE /\ result' = [result EXCEPT !.f = EvalF(tape, p)]
            /\ err' = err
    /\ last' = Last("eval", tape)
    /\ UNCHANGED << flat, tapes, tape, disabled, remap, X, Y, Z, vars, fa, ghost >>

\* eval(lower, upper): set(lower, upper), then interval()
EvalInterval(b) ==
    /\ Ready
    /\ result' = [result EXCEPT !.i = Interval(tapes[tape], SetBox(result.i, b))]
    /\ last' = Last("interval", tape)
    /\ UNCHANGED << flat, tapes, tape, disabled, remap, X, Y, Z, vars, err, fa, ghost >>

Push ==
    /\ Ready
    /\ tape - 1 < MaxDepth
    /\ DoPush
    /\ last' = Last("push", 0)
    /\ UNCHANGED << flat, result, X, Y, Z, vars, fa >>

PushFeature(ft) ==
    /\ Ready
    /\ tape - 1 < MaxDepth
    /\ DoPushFeature(ft)
    /\ last' = [Last("pushFeature", 0) EXCEPT !.choices = ft.choices]
    /\ UNCHANGED << flat, result, X, Y, Z, vars, fa >>

Specialize(p) ==
    /\ Ready
    /\ tape - 1 < MaxDepth
    /\ DoSpecialize(p)
    /\ last' = Last("specialize", 0)
    /\ UNCHANGED << flat, X, Y, Z, vars, fa >>

Pop ==
    /\ Ready
    /\ DoPop
    /\ last' = Last("pop", 0)
    /\ UNCHANGED << flat, tapes, result, disabled, remap, X, Y, Z, vars, fa >>

\* baseEval without "tape = prev_tape"
BaseEvalNoRestore(p) ==
    /\ Ready
    /\ LET k == BaseTape(tapes, tape, p)
       IN  /\ result' = [result EXCEPT !.f = EvalF(k, p)]
           /\ err' = IF EvalHangs(k, p) THEN "values_hang" ELSE err
           /\ tape' = k
           /\ ghost' = SubSeq(ghost, 1, k)
           /\ last' = Last("baseEval", k)
    /\ UNCHANGED << flat, tapes, disabled, remap, X, Y, Z, vars, fa >>

\* baseEval(p): eval(p) on the tape the walk stops at; the cursor is
\* restored after the evaluation
BaseEval(p) ==
    /\ Ready
    /\ LET k == BaseTape(tapes, tape, p)
       IN  /\ IF EvalHangs(k, p)
              THEN /\ result' = [result EXCEPT !.f = SetPoint(result.f, p)]
                   /\ err' = "values_hang"
                   /\ tape' = k
                   /\ ghost' = SubSeq(ghost, 1, k)
              ELSE /\ result' = [result EXCEPT !.f = EvalF(k, p)]
                   /\ err' = err
                   /\ UNCHANGED << tape, ghost >>
           /\ last' = Last("baseEval", k)
    /\ UNCHANGED << flat, tapes, disabled, remap, X, Y, Z, vars, fa >>

\* the features handed to push(Feature): choices over the clause ids of the
\* base tape
ChoiceSet == {[id |-> tapes[1].t[k].id, choice |-> b] :
                k \in 1..Len(tapes[1].t), b \in {0, 1}}
ChoiceLists == UNION {[1..n -> ChoiceSet] : n \in 0..MaxChoices}
Features == {FeatureOf(cs) : cs \in ChoiceLists}

(***************************************************************************)
(* Feature: the half-space system of a feature.  A direction is tested on  *)
(* the integer grid DirRange^3.                                            *)
(***************************************************************************)
DirRange == -2..2
Dirs == DirRange \X DirRange \X DirRange
Dot(u, v) == u[1] * v[1] + u[2] * v[2] + u[3] * v[3]
VSub(u, v) == << u[1] - v[1], u[2] - v[2], u[3] - v[3] >>
VNeg(u) == << -u[1], -u[2], -u[3] >>

\* the epsilons a feature carries
Epsilons(ft) == {ft.eps[k] : k \in DOMAIN ft.eps}

\* whether some direction lies strictly inside every half-space of es
Feasible(es) == \E v \in Dirs : \A e \in es : Dot(v, e) > 0

\* Feature::push accepts (e, c) only if the system stays feasible
Accepts(ft, e) == Feasible(Epsilons(ft) \cup {e})

\* the choices of a feature are kept in clause order
RECURSIVE InsertChoice(_, _)
InsertChoice(cs, c) ==
    IF cs = << >> \/ c.id <= Head(cs).id THEN << c >> \o cs
    ELSE << Head(cs) >> \o InsertChoice(Tail(cs), c)

\* Feature::push_choice
PushChoice(ft, c) == [ft EXCEPT !.choices = InsertChoice(@, c)]

\* Feature::push, once accepted
PushEpsilon(ft, e, c) ==
    [ft EXCEPT !.choices = InsertChoice(@, c), !.eps = (c.id :> e) @@ @]

Choice(id, b) == [id |-> id, choice |-> b]

(***************************************************************************)
(* Evaluator::featuresAt, one action per entry, loop iteration and exit.   *)
(***************************************************************************)
\* a scan that puts the feature back on todo without a new choice
RECURSIVE ScanFromNoChoice(_, _, _, _)
ScanFromNoChoice(t, r, f_, k) ==
    IF k = 0 THEN << >>
    ELSE LET c == t[k]
         IN  IF ~IsMinMax(c.op) THEN ScanFromNoChoice(t, r, f_, k - 1)
             ELSE IF c.a = c.b \/ r.f[c.a] = r.f[c.b] THEN << f_ >>
             ELSE ScanFromNoChoice(t, r, f_, k - 1)

\* the reverse scan of the feature tape for an ambiguous MIN/MAX: the
\* successors it pushes to todo, << >> when no clause is ambiguous
RECURSIVE ScanFrom(_, _, _, _)
ScanFrom(t, r, f_, k) ==
    IF k = 0 THEN << >>
    ELSE LET c == t[k]
             lhs == << r.dx[c.a], r.dy[c.a], r.dz[c.a] >>
             rhs == << r.dx[c.b], r.dy[c.b], r.dz[c.b] >>
             epsilon == IF c.op = "MIN" THEN VSub(rhs, lhs) ELSE VSub(lhs, rhs)
             sa == IF Accepts(f_, epsilon)
                   THEN << PushEpsilon(f_, epsilon, Choice(c.id, 0)) >> ELSE << >>
             sb == IF Accepts(f_, VNeg(epsilon))
                   THEN << PushEpsilon(f_, VNeg(epsilon), Choice(c.id, 1)) >> ELSE << >>
         IN  IF ~IsMinMax(c.op) THEN ScanFrom(t, r, f_, k - 1)
             ELSE IF c.a = c.b THEN << PushChoice(f_, Choice(c.id, 0)) >>
             ELSE IF r.f[c.a] = r.f[c.b] /\ sa \o sb # << >> THEN sa \o sb
             ELSE ScanFrom(t, r, f_, k - 1)

\* featuresAt without the lookup in seen
UnseenAlways(seen, f_) == TRUE

\* "seen.find(f_.getChoices()) == seen.end()"
Unseen(seen, f_) == f_.choices \notin seen

\* "specialize(p)" and the initial worklist
FaBegin(p) ==
    /\ Ready
    /\ tape - 1 < MaxDepth
    /\ DoSpecialize(p)
    /\ fa' = IF err' = "ok"
             THEN [pc |-> "loop", caller |-> "featuresAt", p |-> p,
                   todo |-> << FeatureOf(<< >>) >>, done |-> << >>, seen |-> {},
                   depth |-> tape]
             ELSE fa
    /\ last' = Last("featuresAt", 0)
    /\ UNCHANGED << flat, X, Y, Z, vars >>

\* one iteration of "while (todo.size())": push(f), derivs(1), the scan,
\* the bookkeeping of todo, done and seen, pop()
FaStep ==
    /\ err = "ok"
    /\ fa.pc = "loop"
    /\ fa.todo # << >>
    /\ LET f   == Head(fa.todo)
           sc  == FeatureScan(f)
           tps == PushTape(tapes, tape, sc.disabled, sc.remap, "FEATURE")
           ft  == tps[tape + 1]
           r1  == [result EXCEPT !.f = Values(ft, result.f)]
           r2  == DerivsFrom(ft.t, r1, Len(ft.t))
           f_  == [sc.out EXCEPT !.deriv = << r2.dx[ft.i], r2.dy[ft.i], r2.dz[ft.i] >>]
           succ == ScanFrom(ft.t, r2, sc.out, Len(ft.t))
           fresh == succ = << >> /\ Unseen(fa.seen, f_)
       IN  /\ disabled' = sc.disabled
           /\ remap' = sc.remap
           /\ IF ~AllConsumed(f)
              THEN /\ err' = "choice_underrun"
                   /\ fa' = [fa EXCEPT !.todo = Tail(@)]
                   /\ UNCHANGED << tapes, tape, result >>
              ELSE IF ~TapeGotShorter(tps, tape)
              THEN /\ err' = "tape_grew"
                   /\ tapes' = tps
                   /\ tape' = tape + 1
                   /\ fa' = [fa EXCEPT !.todo = Tail(@)]
                   /\ UNCHANGED result
              ELSE /\ err' = err
                   /\ tapes' = tps
                   /\ tape' = tape
                   /\ result' = r2
                   /\ fa' = [fa EXCEPT
                               !.todo = Tail(@) \o succ,
                               !.done = IF fresh THEN Append(@, f_) ELSE @,
                               !.seen = IF fresh THEN @ \cup {f_.choices} ELSE @]
    /\ last' = Last("featuresAt", 0)
    /\ UNCHANGED << flat, X, Y, Z, vars, ghost >>

\* an exit of featuresAt without the pop() of the specialization
FaEndNoPop ==
    /\ err = "ok"
    /\ fa.pc = "loop"
    /\ fa.caller = "featuresAt"
    /\ fa.todo = << >>
    /\ err' = IF Len(fa.done) > 0 THEN err ELSE "no_features"
    /\ fa' = [Idle EXCEPT !.done = fa.done]
    /\ last' = Last("featuresAt", 1)
    /\ UNCHANGED << flat, tapes, tape, ghost, result, disabled, remap, X, Y, Z, vars >>

\* "pop(); assert(done.size() > 0); return done;"
FaEnd ==
    /\ err = "ok"
    /\ fa.pc = "loop"
    /\ fa.caller = "featuresAt"
    /\ fa.todo = << >>
    /\ tape' = tape - 1
    /\ ghost' = SubSeq(ghost, 1, tape - 1)
    /\ err' = IF Len(fa.done) > 0 THEN err ELSE "no_features"
    /\ fa' = [Idle EXCEPT !.done = fa.done]
    /\ last' = Last("featuresAt", 1)
    /\ UNCHANGED << flat, tapes, result, disabled, remap, X, Y, Z, vars >>

(***************************************************************************)
(* Evaluator::isInside.  The call of featuresAt it makes at an ambiguous   *)
(* zero runs through FaStep; IsInsideEnd is the rest of isInside.          *)
(***************************************************************************)
\* Evaluator::isAmbiguous(): some MIN or MAX of the tape has tied operands
IsAmbiguous(tp, f) ==
    \E k \in 1..Len(tp.t) : IsMinMax(tp.t[k].op) /\ f[tp.t[k].a] = f[tp.t[k].b]

\* Feature::isCompatible(v): v lies strictly inside every half-space
IsCompatible(ft, v) == \A e \in Epsilons(ft) : Dot(v, e) > 0

Bit(b) == IF b THEN 1 ELSE 0

\* a classification that counts every zero as inside
InsideClosed(v, dx, dy, dz) == v <= 0

\* the returns of isInside before featuresAt: by the sign of the value, and
\* at an unambiguous zero by the gradient
InsideBySign(v, dx, dy, dz) ==
    IF v < 0 THEN TRUE
    ELSE IF v > 0 THEN FALSE
    ELSE (dx # 0) \/ (dy # 0) \/ (dz # 0)

\* set(p, 0), derivs(1), the unambiguous returns, and the entry of
\* featuresAt(p): specialize(p) and the initial worklist
IsInside(p) ==
    /\ Ready
    /\ tape - 1 < MaxDepth
    /\ LET tp   == tapes[tape]
           r2   == DerivsFrom(tp.t, [result EXCEPT !.f = EvalF(tape, p)], Len(tp.t))
           v    == r2.f[tp.i]
           sc   == SpecializeWalk(tp.t, r2.f, ResetScratch(tp.i), 1)
       IN  IF EvalHangs(tape, p)
           THEN /\ result' = [result EXCEPT !.f = SetPoint(result.f, p)]
                /\ err' = "values_hang"
                /\ last' = Last("isInside", 2)
                /\ UNCHANGED << tapes, tape, disabled, remap, fa, ghost >>
           ELSE IF v < 0 \/ v > 0 \/ ~IsAmbiguous(tp, r2.f)
           THEN /\ result' = r2
                /\ last' = Last("isInside",
                                Bit(InsideBySign(v, r2.dx[tp.i], r2.dy[tp.i],
                                                 r2.dz[tp.i])))
                /\ UNCHANGED << tapes, tape, disabled, remap, err, fa, ghost >>
           ELSE /\ result' = r2
                /\ DoPushTape(sc, "SPECIALIZED")
                /\ ghost' = SetGhost(ghost, tape, Ghost(tp, TRUE, p, v))
                /\ fa' = IF err' = "ok"
                         THEN [pc |-> "loop", caller |-> "isInside", p |-> p,
                               todo |-> << FeatureOf(<< >>) >>, done |-> << >>,
                               seen |-> {}, depth |-> tape]
                         ELSE fa
                /\ last' = Last("isInside", 2)
    /\ UNCHANGED << flat, X, Y, Z, vars >>

\* what isInside returns for the features fs
InsideOf(fs) ==
    IF Len(fs) = 1 THEN fs[1].deriv # << 0, 0, 0 >>
    ELSE LET pos == \E n \in 1..Len(fs) : IsCompatible(fs[n], fs[n].deriv)
             neg == \E n \in 1..Len(fs) : IsCompatible(fs[n], VNeg(fs[n].deriv))
         IN  ~(pos /\ ~neg)

\* the exit of featuresAt and the rest of isInside
IsInsideEnd ==
    /\ err = "ok"
    /\ fa.pc = "loop"
    /\ fa.caller = "isInside"
    /\ fa.todo = << >>
    /\ tape' = tape - 1
    /\ ghost' = SubSeq(ghost, 1, tape - 1)
    /\ err' = IF Len(fa.done) > 0 THEN err ELSE "no_features"
    /\ fa' = [Idle EXCEPT !.done = fa.done]
    /\ last' = Last("isInside", IF Len(fa.done) > 0 THEN Bit(InsideOf(fa.done)) ELSE 2)
    /\ UNCHANGED << flat, tapes, result, disabled, remap, X, Y, Z, vars >>

(***************************************************************************)
(* The derivative and Jacobian kernels and the variable setter, as a       *)
(* caller invokes them at one point.                                       *)
(***************************************************************************)
\* set(p, 0), then derivs(1)
Derivs(p) ==
    /\ Ready
    /\ IF EvalHangs(tape, p)
       THEN /\ result' = [result EXCEPT !.f = SetPoint(result.f, p)]
            /\ err' = "values_hang"
       ELSE /\ result' = DerivsFrom(tapes[tape].t,
                                    [result EXCEPT !.f = EvalF(tape, p)],
                                    Len(tapes[tape].t))
            /\ err' = err
    /\ last' = Last("derivs", tape)
    /\ UNCHANGED << flat, tapes, tape, disabled, remap, X, Y, Z, vars, fa, ghost >>

\* gradient(p)
Gradient(p) ==
    /\ Ready
    /\ IF EvalHangs(tape, p)
       THEN /\ result' = [result EXCEPT !.f = SetPoint(result.f, p)]
            /\ err' = "values_hang"
       ELSE /\ result' = JacobiansFrom(tapes[tape].t,
                                       [result EXCEPT !.f = EvalF(tape, p)],
                                       Len(tapes[tape].t))
            /\ err' = err
    /\ last' = Last("gradient", tape)
    /\ UNCHANGED << flat, tapes, tape, disabled, remap, X, Y, Z, vars, fa, ghost >>

\* the Tree::Ids handed to setVar: the nodes of the tree, variables or not
TreeIds == 1..Len(flat)

\* vars.right.find(var): the slot of a Tree::Id, 0 when it is not a variable
\* of the evaluator
VarSlotOf(var) ==
    IF \E s \in DOMAIN vars : vars[s] = var
    THEN CHOOSE s \in DOMAIN vars : vars[s] = var
    ELSE 0

\* Result::setValue
SetValue(r, value, s) == [r EXCEPT !.f[s] = value]

\* setVar(var, value)
SetVar(var, value) ==
    /\ Ready
    /\ result' = IF VarSlotOf(var) # 0 THEN SetValue(result, value, VarSlotOf(var))
                 ELSE result
    /\ last' = Last("setVar", 0)
    /\ UNCHANGED << flat, tapes, tape, disabled, remap, X, Y, Z, vars, err, fa, ghost >>

(***************************************************************************)
(* Evaluator::varValues and Evaluator::updateVars.                         *)
(***************************************************************************)
\* the Tree::Ids of the evaluator's variables (vars.right)
VarTreeIds == {vars[s] : s \in DOMAIN vars}

\* varValues(): Tree::Id -> column 0 of the variable's value row
VarValues(r) == [id \in VarTreeIds |-> r.f[VarSlotOf(id)]]

\* a set of slots in ascending order: the iteration order of vars.left
RECURSIVE SlotSeq(_)
SlotSeq(S) ==
    IF S = {} THEN << >>
    ELSE LET m == CHOOSE x \in S : \A y \in S : x <= y
         IN  << m >> \o SlotSeq(S \ {m})

\* an updateVars that reports only whether the last variable changed
RECURSIVE UpdateFromLastOnly(_, _, _, _)
UpdateFromLastOnly(r, vars_, todo, changed) ==
    IF todo = << >> THEN [result |-> r, changed |-> changed, threw |-> FALSE]
    ELSE LET s == Head(todo)
         IN  IF vars[s] \notin DOMAIN vars_
             THEN [result |-> r, changed |-> changed, threw |-> TRUE]
             ELSE IF vars_[vars[s]] # r.f[s]
             THEN UpdateFromLastOnly(SetValue(r, vars_[vars[s]], VarSlotOf(vars[s])),
                                     vars_, Tail(todo), TRUE)
             ELSE UpdateFromLastOnly(r, vars_, Tail(todo), FALSE)

\* an updateVars that skips the variables the map does not hold
RECURSIVE UpdateFromSkipMissing(_, _, _, _)
UpdateFromSkipMissing(r, vars_, todo, changed) ==
    IF todo = << >> THEN [result |-> r, changed |-> changed, threw |-> FALSE]
    ELSE LET s == Head(todo)
         IN  IF vars[s] \notin DOMAIN vars_
             THEN UpdateFromSkipMissing(r, vars_, Tail(todo), changed)
             ELSE IF vars_[vars[s]] # r.f[s]
             THEN UpdateFromSkipMissing(SetValue(r, vars_[vars[s]], VarSlotOf(vars[s])),
                                        vars_, Tail(todo), TRUE)
             ELSE UpdateFromSkipMissing(r, vars_, Tail(todo), changed)

\* the loop of updateVars over the slots todo: "vars_.at(v.second)" throws
\* std::out_of_range when the map has no entry for the variable; a value
\* that differs is written through setVar
RECURSIVE UpdateFrom(_, _, _, _)
UpdateFrom(r, vars_, todo, changed) ==
    IF todo = << >> THEN [result |-> r, changed |-> changed, threw |-> FALSE]
    ELSE LET s == Head(todo)
         IN  IF vars[s] \notin DOMAIN vars_
             THEN [result |-> r, changed |-> changed, threw |-> TRUE]
             ELSE IF vars_[vars[s]] # r.f[s]
             THEN UpdateFrom(SetValue(r, vars_[vars[s]], VarSlotOf(vars[s])),
                             vars_, Tail(todo), TRUE)
             ELSE UpdateFrom(r, vars_, Tail(todo), changed)

\* updateVars(vars_)
UpdateVars(vars_) ==
    /\ Ready
    /\ LET run == UpdateFrom(result, vars_, SlotSeq(DOMAIN vars), FALSE)
       IN  /\ result' = run.result
           /\ err' = IF run.threw THEN "unknown_variable" ELSE err
           /\ last' = Last("updateVars", IF run.threw THEN 2 ELSE Bit(run.changed))
    /\ UNCHANGED << flat, tapes, tape, disabled, remap, X, Y, Z, vars, fa, ghost >>

\* the maps handed to updateVars: values for any of the nodes of the tree
VarMaps == UNION {[ids -> VarVals] : ids \in SUBSET TreeIds}

(***************************************************************************)
(* Specifications.                                                         *)
(***************************************************************************)
\* interval subdivision: interval evaluations, push(), pop(), and point
\* evaluations through baseEval
Init ==
    InitOf({TreeNested, TreeShared, TreeMod, TreeAxis})

Next ==
    \/ \E b \in Boxes : EvalInterval(b)
    \/ Push
    \/ Pop
    \/ \E p \in Points : BaseEval(p)

Spec == Init /\ [][Next]_allvars

\* specialization and feature pushes
InitPoint ==
    InitOf({TreeNested, TreeTies})

NextPoint ==
    \/ \E p \in Points : Eval(p)
    \/ \E p \in Points : Specialize(p)
    \/ \E ft \in Features : PushFeature(ft)
    \/ Pop

SpecPoint == InitPoint /\ [][NextPoint]_allvars


\* every stack operation, on the trees whose tapes stay small
InitStack ==
    InitOf({TreeMin, TreeAxis})

NextStack ==
    \/ \E b \in Boxes : EvalInterval(b)
    \/ Push
    \/ \E p \in Points : Specialize(p)
    \/ \E ft \in Features : PushFeature(ft)
    \/ Pop
    \/ \E p \in Points : BaseEval(p)

SpecStack == InitStack /\ [][NextStack]_allvars

\* feature enumeration, on tapes as built and as reduced by push()
\* max(x, y)
TreeEdge == << Leaf("VAR_X"), Leaf("VAR_Y"), Node("MAX", 1, 2, 0) >>
\* max(min(x, y), z)
TreeCorner ==
    << Leaf("VAR_X"), Leaf("VAR_Y"), Leaf("VAR_Z"),
       Node("MIN", 1, 2, 0), Node("MAX", 4, 3, 0) >>
\* min(x, x): a MIN whose operands are the same slot
TreeSame == << Leaf("VAR_X"), Node("MIN", 1, 1, 0) >>

InitFeat ==
    InitOf({TreeEdge, TreeCorner, TreeSame, TreeNested})

NextFeat ==
    \/ \E b \in Boxes : EvalInterval(b)
    \/ Push
    \/ Pop
    \/ \E p \in Points : FaBegin(p)
    \/ FaStep
    \/ FaEnd

SpecFeat == InitFeat /\ [][NextFeat]_allvars

\* the kernels on every tape of a stack built by push()
InitKernel ==
    InitOf({TreeVarMin, TreeMin})

NextKernel ==
    \/ \E p \in Points : Eval(p)
    \/ \E p \in Points : Derivs(p)
    \/ \E p \in Points : Gradient(p)
    \/ \E b \in Boxes : EvalInterval(b)
    \/ \E var \in TreeIds, value \in VarVals : SetVar(var, value)
    \/ Push
    \/ Pop

SpecKernel == InitKernel /\ [][NextKernel]_allvars

\* surface classification, on tapes as built and as reduced by push()
\* -(x^2)
TreeNegSquare == << Leaf("VAR_X"), Node("SQUARE", 1, 0, 0), Node("NEG", 2, 0, 0) >>

InitInside ==
    InitOf({TreeAxis, TreeNegSquare, TreeEdge, TreeCorner})

NextInside ==
    \/ \E b \in Boxes : EvalInterval(b)
    \/ Push
    \/ Pop
    \/ \E p \in Points : IsInside(p)
    \/ FaStep
    \/ IsInsideEnd

SpecInside == InitInside /\ [][NextInside]_allvars

\* the variables: setVar, updateVars and evaluations
\* v + w with the free variables v and w
TreeTwoVars == << Leaf("VAR"), Leaf("VAR"), Node("ADD", 1, 2, 0) >>

InitVars ==
    InitOf({TreeTwoVars, TreeVarMin, TreeMin})

NextVars ==
    \/ \E p \in Points : Eval(p)
    \/ \E var \in TreeIds, value \in VarVals : SetVar(var, value)
    \/ \E vars_ \in VarMaps : UpdateVars(vars_)

SpecVars == InitVars /\ [][NextVars]_allvars

\* the MOD clause on dividends and divisors of either sign
\* mod(v - x, w + w) with the free variables v and w
TreeModVars ==
    << Leaf("VAR"), Leaf("VAR_X"), Node("SUB", 1, 2, 0), Leaf("VAR"),
       Node("ADD", 4, 4, 0), Node("MOD", 3, 5, 0) >>

InitMod ==
    InitOf({TreeModVars})

NextMod ==
    \/ \E p \in Points : Eval(p)
    \/ \E var \in TreeIds, value \in VarVals : SetVar(var, value)

SpecMod == InitMod /\ [][NextMod]_allvars

\* the scenario f = min(x - 1, 1 - x), with every coordinate and constant
\* multiplied by Scale so that 0.5 is the integer 1
Scale == 2

\* min(x - 2, 2 - x), which is Scale * min(x/Scale - 1, 1 - x/Scale)
TreeFold ==
    << Leaf("VAR_X"), Node("CONST", 0, 0, Scale), Node("SUB", 1, 2, 0),
       Node("SUB", 2, 1, 0), Node("MIN", 3, 4, 0) >>

ScaledCoord == 0..(Scale * MaxCoord)
ScaledPoints == ScaledCoord \X {0} \X {0}
\* boxes with one range on x and one range shared by y and z
ScaledGrid == {<< x, yz, yz >> : x \in ScaledCoord, yz \in ScaledCoord}
ScaledBoxes == {b \in [lower : ScaledGrid, upper : ScaledGrid] :
                   \A k \in 1..3 : b.lower[k] <= b.upper[k]}

InitFold ==
    InitOf({TreeFold})

NextFold ==
    \/ \E p \in ScaledPoints : Eval(p)
    \/ \E b \in ScaledBoxes : EvalInterval(b)

SpecFold == InitFold /\ [][NextFold]_allvars

\* the order of the clauses on the tapes: pushes that remap an operand to
\* a clause that stays on the tape
\* -min(x - 1, 1): the MIN clause collapses to the SUB clause
TreeClamp ==
    << Leaf("VAR_X"), Node("CONST", 0, 0, 1), Node("SUB", 1, 2, 0),
       Node("MIN", 3, 2, 0), Node("NEG", 4, 0, 0) >>

InitOrder ==
    InitOf({TreeClamp, TreeShared})

NextOrder ==
    \/ \E b \in Boxes : EvalInterval(b)
    \/ Push
    \/ \E p \in Points : Specialize(p)
    \/ Pop

SpecOrder == InitOrder /\ [][NextOrder]_allvars

\* the constructor on trees of every shape: with and without axes,
\* variables, constants, shared subtrees and interior nodes
\* the constant 1
TreeConst == << Node("CONST", 0, 0, 1) >>

\* z - y
TreeZY == << Leaf("VAR_Z"), Leaf("VAR_Y"), Node("SUB", 1, 2, 0) >>

BuildTrees ==
    {TreeAxis, TreeConst, TreeZY, TreeMin, TreeNested, TreeShared, TreeMod,
     TreeVarMin, TreeTwoVars, TreeEdge, TreeCorner, TreeClamp}

InitBuild ==
    InitOf(BuildTrees)

NextBuild ==
    \/ \E p \in Points : Eval(p)
    \/ \E b \in Boxes : EvalInterval(b)
    \/ \E var \in TreeIds, value \in VarVals : SetVar(var, value)

SpecBuild == InitBuild /\ [][NextBuild]_allvars

\* calls of featuresAt alone, with the loop scheduled: a call runs to its
\* return, so an enabled iteration or exit of the loop is eventually taken
NextLoop ==
    \/ \E p \in Points : FaBegin(p)
    \/ FaStep
    \/ FaEnd

\* FaStep is enabled exactly in these states: past its three guards it only
\* assigns, and it always takes the front feature off todo
FaStepEnabled == err = "ok" /\ fa.pc = "loop" /\ fa.todo # << >>

\* WF_allvars(FaStep), written out with FaStepEnabled for ENABLED
FaStepFair == []<>(~FaStepEnabled) \/ []<><<FaStep>>_allvars

InitLoop ==
    InitOf({TreeEdge, TreeCorner, TreeSame, TreeNested, TreeTies, TreeShared})

SpecLoop ==
    InitLoop /\ [][NextLoop]_allvars /\ FaStepFair /\ WF_allvars(FaEnd)

\* featuresAt and isInside called at any depth of the stack
InitBalance ==
    InitOf({TreeEdge, TreeCorner, TreeNegSquare})

NextBalance ==
    \/ \E b \in Boxes : EvalInterval(b)
    \/ Push
    \/ Pop
    \/ \E p \in Points : FaBegin(p)
    \/ \E p \in Points : IsInside(p)
    \/ FaStep
    \/ FaEnd
    \/ IsInsideEnd

SpecBalance == InitBalance /\ [][NextBalance]_allvars

(***************************************************************************)
(* Properties, C1 to C10.                                                  *)
(***************************************************************************)
\* the value eval(p) gives on tape k, from the leaves of the arena
ValueOn(k, p) == Values(tapes[k], SetPoint(result.f, p))[tapes[k].i]

\* the points of the box stored on a tape
PointsIn(tp) == {p \in Points : BoxContains(tp, p)}

\* C1: after a push of any of the three kinds followed by pop(), the current
\* tape has the number of clauses, the root slot and the type tag it had
\* before the push, whatever balanced pushes and pops came earlier.
C1_PushPopIdentity ==
    [][(last'.op = "pop" /\ err' = "ok" /\ tape' = tape - 1)
          => Summary(tapes'[tape']) = ghost[tape].saved]_allvars

\* a pop back to the base tape from a SPECIALIZED tape that reused the tape
\* object of an earlier push(), whose box it still holds
C1_Witness ==
    /\ last.op = "pop"
    /\ err = "ok"
    /\ tape = 1
    /\ Len(tapes) = 3
    /\ tapes[2].type = "SPECIALIZED"
    /\ tapes[2].X.upper = 1
    /\ tapes[3].type = "FEATURE"

\* C2: when push() directly follows an interval evaluation over a box, every
\* point of the box has the same value on the pushed tape as on its parent.
C2_PushKeepsValues ==
    \A k \in 2..tape :
        (tapes[k].type = "INTERVAL" /\ ghost[k].sound) =>
            \A p \in PointsIn(tapes[k]) :
                ~EvalHangs(k - 1, p) => ValueOn(k, p) = ValueOn(k - 1, p)

\* two nested sound pushes on max(min(x, 1), x - 1), the second of which
\* remapped the root through the collapsed MAX and the collapsed MIN
C2_Witness ==
    /\ flat = TreeNested
    /\ tape = 3
    /\ tapes[2].type = "INTERVAL" /\ ghost[2].sound
    /\ tapes[3].type = "INTERVAL" /\ ghost[3].sound
    /\ Len(tapes[2].t) = 3
    /\ Len(tapes[3].t) = 0
    /\ tapes[3].i = X

\* C3: the value at p on a SPECIALIZED tape made by specialize(p), and on
\* every FEATURE tape pushed on top of it, is the value eval(p) gave on the
\* tape that was specialized.
C3_SpecializeKeepsValue ==
    \A j \in 2..tape : \A k \in j..tape :
        (/\ tapes[j].type = "SPECIALIZED"
         /\ \A m \in (j + 1)..k : tapes[m].type = "FEATURE")
            => ValueOn(k, ghost[j].pt) = ghost[j].val

\* a FEATURE tape that dropped a clause of the SPECIALIZED tape below it,
\* seen after an evaluation at another point
C3_Witness ==
    /\ tape = 3
    /\ tapes[2].type = "SPECIALIZED"
    /\ tapes[3].type = "FEATURE"
    /\ Len(tapes[3].t) < Len(tapes[2].t)
    /\ Len(tapes[2].t) < Len(tapes[1].t)
    /\ last.op = "eval"
    /\ result.f[X] # ghost[2].pt[1]

\* C4: the interval computed by eval(lower, upper) contains eval(p) for every
\* point p of the box.
C4_IntervalContainsValues ==
    last.op = "interval" =>
        \A p \in Points :
            (/\ result.i[X].lower <= p[1] /\ p[1] <= result.i[X].upper
             /\ result.i[Y].lower <= p[2] /\ p[2] <= result.i[Y].upper
             /\ result.i[Z].lower <= p[3] /\ p[3] <= result.i[Z].upper
             /\ ~EvalHangs(tape, p))
                => /\ result.i[tapes[tape].i].lower <= ValueOn(tape, p)
                   /\ ValueOn(tape, p) <= result.i[tapes[tape].i].upper

\* Evaluator::utilization at the tape of depth k: the two operands of the
\* division "tape->t.size() / double(tapes.front().t.size())"
Utilization(tps, k) == [num |-> Len(tps[k].t), den |-> Len(tps[1].t)]

\* u <= v on the doubles num / den.  0 / 0 is NaN, which compares false with
\* everything; a denominator of 0 with a numerator above 0 is +Inf.
RatioLeq(u, v) ==
    IF (u.den = 0 /\ u.num = 0) \/ (v.den = 0 /\ v.num = 0) THEN FALSE
    ELSE IF v.den = 0 THEN TRUE
    ELSE IF u.den = 0 THEN FALSE
    ELSE u.num * v.den <= v.num * u.den

\* C5: every tape from depth 1 up to the cursor is no longer than the tape
\* below it, the assertion of pushTape never fails, and utilization() is
\* non-increasing from the base tape up to the cursor and at most 1.
C5_TapesShrink ==
    /\ err # "tape_grew"
    /\ \A k \in 2..tape : Len(tapes[k].t) <= Len(tapes[k - 1].t)
    /\ \A k \in 2..tape : RatioLeq(Utilization(tapes, k), Utilization(tapes, k - 1))
    /\ \A k \in 1..tape : RatioLeq(Utilization(tapes, k), [num |-> 1, den |-> 1])

\* the slots of the CONST nodes
ConstSlots == {ClauseIdOf(flat, k) : k \in {n \in 1..Len(flat) : flat[n].op = "CONST"}}

\* C6: no kernel writes a leaf slot.  The value rows of the constants, the
\* derivative rows of X, Y and Z and the Jacobian rows of the variables stay
\* as the constructor left them; the value row of a variable changes only in
\* setVar, the value row of an axis only in an operation that calls set.
C6_LeafSlotsKept ==
    [][/\ \A s \in ConstSlots : result'.f[s] = ConstantsAt(flat, << >>, s)
       /\ \A s \in {X, Y, Z} :
            /\ result'.dx[s] = (IF s = X THEN 1 ELSE 0)
            /\ result'.dy[s] = (IF s = Y THEN 1 ELSE 0)
            /\ result'.dz[s] = (IF s = Z THEN 1 ELSE 0)
       /\ \A s \in DOMAIN vars :
            \A k \in 1..NumVars(flat) :
                result'.j[s][k] = (IF VarIndex(flat, s) = k THEN 1 ELSE 0)
       /\ last'.op # "setVar" => \A s \in DOMAIN vars : result'.f[s] = result.f[s]
       /\ last'.op \in {"interval", "push", "pop", "setVar"}
            => \A s \in {X, Y, Z} : result'.f[s] = result.f[s]]_allvars

\* the derivative and the Jacobian kernels have run on a pushed tape that
\* still holds the MIN clause over the axis and the variable
C6_Witness ==
    /\ flat = TreeVarMin
    /\ tape = 2
    /\ Len(tapes[2].t) = 1
    /\ last.op = "gradient"
    /\ result.j[tapes[2].i][1] = 1
    /\ result.dx[tapes[2].i] = 0

\* C7: pop() at the base tape is an error and leaves the cursor on the base
\* tape; a pop() above the base succeeds; the cursor always designates one of
\* the allocated tapes.
C7_CursorInRange ==
    [][/\ tape' \in 1..Len(tapes')
       /\ (Pop /\ tape = 1) => (err' = "pop_underflow" /\ tape' = 1)
       /\ (Pop /\ tape > 1) => (err' = "ok" /\ tape' = tape - 1)]_allvars

\* pop() was called on the base tape while deeper tapes were allocated
C7_Witness ==
    /\ err = "pop_underflow"
    /\ tape = 1
    /\ Len(tapes) = 3

\* the position of the clause with a given id in a tape, 0 when absent
PosOf(t, id) ==
    IF \E k \in 1..Len(t) : t[k].id = id
    THEN CHOOSE k \in 1..Len(t) : t[k].id = id
    ELSE 0

\* every choice names a MIN/MAX clause of the tape whose operands are tied,
\* and the choices come in the order of the tape
Consumable(ft, t, f) ==
    \A n \in 1..Len(ft.choices) :
        LET k == PosOf(t, ft.choices[n].id)
        IN  /\ k # 0
            /\ IsMinMax(t[k].op)
            /\ (f[t[k].a] = f[t[k].b] \/ t[k].a = t[k].b)
            /\ n > 1 => PosOf(t, ft.choices[n - 1].id) < k

\* C8: push(Feature) fails its assertion exactly when a choice is left
\* unconsumed, that is when the choices are not, in tape order, tied MIN/MAX
\* clauses of the current tape.
C8_UnderrunIffUnconsumed ==
    last.op = "pushFeature" =>
        LET walked == IF err = "ok" THEN tapes[tape - 1] ELSE tapes[tape]
            ok == Consumable(FeatureOf(last.choices), walked.t, result.f)
        IN  /\ (err = "choice_underrun") <=> ~ok
            /\ (err = "ok") <=> ok

\* push(Feature) failed on the SPECIALIZED tape of max(min(x, 0), x) at
\* x = 0, where both clauses are tied, on two choices given out of tape order
C8_Witness ==
    /\ flat = TreeTies
    /\ last.op = "pushFeature"
    /\ err = "choice_underrun"
    /\ tape = 2
    /\ tapes[2].type = "SPECIALIZED"
    /\ Len(tapes[2].t) = 2
    /\ result.f[X] = 0
    /\ Len(last.choices) = 2
    /\ last.choices[1].id = 2
    /\ last.choices[2].id = 1

\* C9: featuresAt never fails "assert(done.size() > 0)", and the list it
\* returns is not empty and holds no two features with the same choices.
C9_FeaturesDistinct ==
    /\ err # "no_features"
    /\ last = Last("featuresAt", 1) =>
          /\ Len(fa.done) > 0
          /\ \A m, n \in 1..Len(fa.done) :
                m # n => fa.done[m].choices # fa.done[n].choices

\* featuresAt returned the three features of max(min(x, y), z) at the origin
C9_Witness ==
    /\ flat = TreeCorner
    /\ last = Last("featuresAt", 1)
    /\ err = "ok"
    /\ Len(fa.done) = 3
    /\ {fa.done[n].deriv : n \in 1..3} = {<< 1, 0, 0 >>, << 0, 1, 0 >>, << 0, 0, 1 >>}

\* the INTERVAL tapes, from the base up to the cursor, whose box contains p
Candidates(tps, cur, p) ==
    {k \in 2..cur : tps[k].type = "INTERVAL" /\ BoxContains(tps[k], p)}

\* the one of lowest depth, the base tape when there is none
Shallowest(tps, cur, p) ==
    IF Candidates(tps, cur, p) = {} THEN 1
    ELSE CHOOSE k \in Candidates(tps, cur, p) :
            \A m \in Candidates(tps, cur, p) : k <= m

\* the one of greatest depth, the base tape when there is none
Deepest(tps, cur, p) ==
    IF Candidates(tps, cur, p) = {} THEN 1
    ELSE CHOOSE k \in Candidates(tps, cur, p) :
            \A m \in Candidates(tps, cur, p) : k >= m

\* C10 as stated: baseEval(p) evaluates on the shallowest INTERVAL tape whose
\* box contains p, on the base tape when there is none.
C10_Shallowest ==
    [][\A p \in Points :
          BaseEval(p) => last'.sel = Shallowest(tapes, tape, p)]_allvars

\* C10 amended: baseEval(p) evaluates on the deepest INTERVAL tape, from the
\* cursor down, whose box contains p, on the base tape when there is none;
\* a FEATURE or SPECIALIZED tape is never the one.
C10_Deepest ==
    [][\A p \in Points :
          BaseEval(p) =>
              /\ last'.sel = Deepest(tapes, tape, p)
              /\ tapes[last'.sel].type \in {"INTERVAL", "ORIGINAL"}
              /\ err' = "ok" => result'.f = EvalF(last'.sel, p)]_allvars

\* baseEval chose the deeper of two INTERVAL tapes whose boxes both hold the
\* point it was given
C10_Witness ==
    /\ last = Last("baseEval", 3)
    /\ err = "ok"
    /\ tape = 3
    /\ tapes[3].type = "INTERVAL"
    /\ tapes[2].type = "INTERVAL"
    /\ BoxContains(tapes[2], << result.f[X], result.f[Y], result.f[Z] >>)
    /\ BoxContains(tapes[3], << result.f[X], result.f[Y], result.f[Z] >>)

(***************************************************************************)
(* Properties, C11 to C20.                                                 *)
(***************************************************************************)
\* C11: when baseEval(p) returns, the cursor is where it was before the call
\* and no tape of the stack has changed (clauses, root, type, box).
C11_BaseEvalKeepsStack ==
    [][(last'.op = "baseEval" /\ err' = "ok" /\ \E p \in Points : BaseEval(p))
          => (tape' = tape /\ tapes' = tapes)]_allvars

\* baseEval evaluated on a tape below the cursor and the cursor is back on
\* the third tape
C11_Witness ==
    /\ last.op = "baseEval"
    /\ err = "ok"
    /\ tape = 3
    /\ last.sel < 3

\* C12: isInside(p) returns true when the root value at p is negative and
\* false when it is positive; at a zero where no MIN/MAX of the current tape
\* is tied it returns true iff one of the three derivatives of the root is
\* non-zero.
C12_IsInsideBySign ==
    (last.op = "isInside" /\ last.sel # 2 /\ err = "ok") =>
        LET tp == tapes[tape]
            v  == result.f[tp.i]
        IN  /\ v < 0 => last.sel = 1
            /\ v > 0 => last.sel = 0
            /\ (v = 0 /\ ~IsAmbiguous(tp, result.f)) =>
                  (last.sel = 1 <=> (\/ result.dx[tp.i] # 0
                                     \/ result.dy[tp.i] # 0
                                     \/ result.dz[tp.i] # 0))

\* isInside returned false at a zero of -(x^2), where the gradient is zero
C12_Witness ==
    /\ flat = TreeNegSquare
    /\ last = Last("isInside", 0)
    /\ err = "ok"
    /\ result.f[tapes[tape].i] = 0
    /\ result.dx[tapes[tape].i] = 0

\* C13: updateVars(m), for a map m that holds every variable of the
\* evaluator, returns true iff some variable's stored value differs from m's;
\* afterwards varValues() agrees with m on every variable; with m equal to
\* varValues() on the variables it returns false and changes nothing.
C13_UpdateVarsReportsChange ==
    [][\A m \in VarMaps :
          (UpdateVars(m) /\ VarTreeIds \subseteq DOMAIN m) =>
              /\ err' = "ok"
              /\ last'.sel = 1 <=> (\E id \in VarTreeIds : VarValues(result)[id] # m[id])
              /\ last'.sel = 0 <=> (\A id \in VarTreeIds : VarValues(result)[id] = m[id])
              /\ \A id \in VarTreeIds : VarValues(result')[id] = m[id]
              /\ (\A id \in VarTreeIds : VarValues(result)[id] = m[id])
                    => result' = result]_allvars

\* updateVars returned true on the evaluator of v + w and left the two
\* variables with different values
C13_Witness ==
    /\ flat = TreeTwoVars
    /\ last = Last("updateVars", 1)
    /\ err = "ok"
    /\ VarValues(result)[1] # VarValues(result)[2]

\* C14 as stated: updateVars(m) fails whenever m has a key that is not a
\* variable of the evaluator.
C14_FailsOnForeignKey ==
    [][\A m \in VarMaps :
          (UpdateVars(m) /\ \E id \in DOMAIN m : id \notin VarTreeIds)
              => err' = "unknown_variable"]_allvars

\* C14 amended: updateVars(m) fails exactly when m has no entry for some
\* variable of the evaluator; keys of m that are not variables of the
\* evaluator are ignored.
C14_FailsOnMissingVariable ==
    [][\A m \in VarMaps :
          UpdateVars(m) =>
              /\ err' = "unknown_variable" <=> ~(VarTreeIds \subseteq DOMAIN m)
              /\ err' = "ok" <=> VarTreeIds \subseteq DOMAIN m]_allvars

\* updateVars failed on the evaluator of v + w after it had written one of
\* the two variables
C14_Witness ==
    /\ flat = TreeTwoVars
    /\ err = "unknown_variable"
    /\ last = Last("updateVars", 2)
    /\ VarValues(result)[1] # VarValues(result)[2]

\* floor(a / b) for a non-zero b
FloorDiv(a, b) == IF b > 0 THEN a \div b ELSE (-a) \div (-b)

\* the floored modulus a - b * floor(a / b)
FlooredMod(a, b) == a - b * FloorDiv(a, b)

\* C15: after values() every MOD clause with a non-zero divisor b holds the
\* floored modulus a - b * floor(a / b) of its operands, for b of either
\* sign: the evaluation completes and the stored value is that modulus.
C15_ModIsFloored ==
    last.op = "eval" =>
        \A k \in 1..Len(tapes[tape].t) :
            LET c == tapes[tape].t[k]
            IN  (c.op = "MOD" /\ result.f[c.b] # 0) =>
                    /\ err = "ok"
                    /\ result.f[c.id] = FlooredMod(result.f[c.a], result.f[c.b])

\* for a positive divisor a completed evaluation stores the floored modulus
ModIsFlooredForPositiveDivisor ==
    (last.op = "eval" /\ err = "ok") =>
        \A k \in 1..Len(tapes[tape].t) :
            LET c == tapes[tape].t[k]
            IN  (c.op = "MOD" /\ result.f[c.b] > 0) =>
                    result.f[c.id] = FlooredMod(result.f[c.a], result.f[c.b])

\* the last eval was at the point (0.5, 0, 0), in scaled coordinates
AtHalf ==
    /\ last.op = "eval"
    /\ result.f[X] = 1 /\ result.f[Y] = 0 /\ result.f[Z] = 0

\* the last interval evaluation was over the box [0,1]^3, in scaled coordinates
OverUnitBox ==
    /\ last.op = "interval"
    /\ \A s \in {X, Y, Z} : result.i[s] = Ival(0, Scale)

\* C16 as stated: for f = min(x - 1, 1 - x), eval at (0.5, 0, 0) returns 0.5
\* and the interval over [0,1]^3 is contained in [0, 0.5].
C16_FoldScenario ==
    flat = TreeFold =>
        /\ AtHalf => result.f[tapes[1].i] = 1
        /\ OverUnitBox => /\ 0 <= result.i[tapes[1].i].lower
                          /\ result.i[tapes[1].i].upper <= 1

\* C16 amended: for f = min(x - 1, 1 - x), eval at (0.5, 0, 0) returns -0.5
\* and the interval over [0,1]^3 is [-1, 0].
C16_FoldScenarioNegative ==
    flat = TreeFold =>
        /\ AtHalf => result.f[tapes[1].i] = -1
        /\ OverUnitBox => result.i[tapes[1].i] = Ival(-Scale, 0)

\* the interval over the unit box was evaluated after an eval at (0.5, 0, 0)
C16_Witness ==
    /\ flat = TreeFold
    /\ OverUnitBox
    /\ result.f[X] = 1 /\ result.f[tapes[1].i] = -1
    /\ result.i[tapes[1].i] = Ival(-Scale, 0)

\* the state is the one a push of the tape stack has just produced
JustPushed ==
    /\ last.op \in {"push", "pushFeature", "specialize"}
    /\ err = "ok"
    /\ tape > 1

\* the slot n links down the remap chain that starts at s
RECURSIVE Follow(_, _, _)
Follow(rm, s, n) == IF n = 0 THEN s ELSE rm[Follow(rm, s, n - 1)]

\* the end of the remap chain that starts at s: the first slot on the chain
\* with no remap entry
ChainEnd(rm, s) ==
    LET n == CHOOSE m \in 0..Cardinality(DOMAIN rm) :
                 /\ rm[Follow(rm, s, m)] = 0
                 /\ \A l \in 0..(m - 1) : rm[Follow(rm, s, l)] # 0
    IN  Follow(rm, s, n)

\* the positions of the clauses of t that are not disabled
KeptPos(t, dis) == {k \in 1..Len(t) : ~dis[t[k].id]}

\* the j-th of them from the front
NthKept(t, dis, j) ==
    CHOOSE k \in KeptPos(t, dis) :
        Cardinality({l \in KeptPos(t, dis) : l <= k}) = j

\* C17: the tape a push produces holds exactly the clauses of its parent
\* that are not disabled, in the parent's order, each with its opcode and id
\* and with each operand replaced by the end of the operand's remap chain;
\* its root is the end of the remap chain of the parent's root.
C17_PushedTapeIsFilteredParent ==
    JustPushed =>
        LET parent == tapes[tape - 1]
            child  == tapes[tape]
        IN  /\ Len(child.t) = Cardinality(KeptPos(parent.t, disabled))
            /\ \A j \in 1..Len(child.t) :
                  LET c == parent.t[NthKept(parent.t, disabled, j)]
                  IN  child.t[j] = [op |-> c.op, id |-> c.id,
                                    a |-> ChainEnd(remap, c.a),
                                    b |-> ChainEnd(remap, c.b)]
            /\ child.i = ChainEnd(remap, parent.i)

\* a push whose root went down a remap chain of two links and which kept
\* a clause with a remapped operand out of a longer parent
C17_Witness ==
    /\ JustPushed
    /\ remap[tapes[tape - 1].i] # 0
    /\ remap[remap[tapes[tape - 1].i]] # 0
    /\ tapes[tape].i = remap[remap[tapes[tape - 1].i]]

\* the tape has a MIN or MAX clause
HasMinMax(t) == \E k \in 1..Len(t) : IsMinMax(t[k].op)

\* C18 as stated: every pushed tape is strictly shorter than its parent,
\* also when the parent has no MIN or MAX clause.
C18_PushedTapeStrictlyShorter ==
    JustPushed => Len(tapes[tape].t) < Len(tapes[tape - 1].t)

\* C18 amended: a pushed tape is never longer than its parent; it is shorter
\* by the number of the parent's clauses that are disabled, so it has the
\* parent's length exactly when no clause is disabled, which is always the
\* case for a parent without MIN or MAX clauses.
C18_PushedTapeNoLonger ==
    JustPushed =>
        LET parent == tapes[tape - 1]
            child  == tapes[tape]
            gone   == {k \in 1..Len(parent.t) : disabled[parent.t[k].id]}
        IN  /\ Len(child.t) <= Len(parent.t)
            /\ Len(child.t) = Len(parent.t) - Cardinality(gone)
            /\ ~HasMinMax(parent.t) => Len(child.t) = Len(parent.t)

\* a push of a tape with clauses but no MIN or MAX, and the copy is as long
C18_Witness ==
    /\ JustPushed
    /\ Len(tapes[tape - 1].t) > 0
    /\ ~HasMinMax(tapes[tape - 1].t)
    /\ Len(tapes[tape].t) = Len(tapes[tape - 1].t)

\* C19: in the ORIGINAL tape and in every pushed tape a clause stands at a
\* lower index than each clause whose id is one of its operands.
C19_OperandsFollow ==
    \A d \in 1..Len(tapes) :
        \A k, l \in 1..Len(tapes[d].t) :
            tapes[d].t[l].id \in {tapes[d].t[k].a, tapes[d].t[k].b} => k < l

\* a pushed tape with a clause whose operand was remapped to a clause that
\* is still on the tape
C19_Witness ==
    /\ JustPushed
    /\ \E k, l \in 1..Len(tapes[tape].t) :
          /\ tapes[tape].t[l].id = tapes[tape].t[k].a
          /\ \E m \in 1..Len(tapes[tape - 1].t) :
                /\ tapes[tape - 1].t[m].id = tapes[tape].t[k].id
                /\ tapes[tape - 1].t[m].a # tapes[tape].t[k].a

\* the state is the one push() has just produced
JustPushedInterval == JustPushed /\ last.op = "push"

\* the slot was live at some moment of the walk: it is still enabled, or it
\* is a clause that was visited live and collapsed
WasLive(s) == ~disabled[s] \/ remap[s] # 0

\* I[a].lower > I[b].upper
Above(a, b) == result.i[a].lower > result.i[b].upper

\* the live clause c makes the slot s live
MakesLive(c, s) ==
    /\ WasLive(c.id)
    /\ IF remap[c.id] = 0 THEN s \in {c.a, c.b} ELSE s = remap[c.id]

\* C20: in push(), for every MIN/MAX clause that is live when the walk
\* reaches it: MAX collapses to a iff I[a].lower > I[b].upper and to b iff
\* I[b].lower > I[a].upper, MIN collapses to b iff I[a].lower > I[b].upper
\* and to a iff I[b].lower > I[a].upper; if neither inequality holds the
\* clause is kept and both operands become live; a collapsed clause ends
\* disabled with its chosen operand live; and a slot other than the root is
\* live only if a live clause made it live, as a kept clause's operand or as
\* a collapsed clause's chosen operand.
C20_PushCollapseRules ==
    JustPushedInterval =>
        LET t == tapes[tape - 1].t
        IN  /\ \A k \in 1..Len(t) :
                  LET c == t[k]
                  IN  (WasLive(c.id) /\ IsMinMax(c.op)) =>
                        /\ c.op = "MAX" =>
                              /\ remap[c.id] = c.a <=> Above(c.a, c.b)
                              /\ remap[c.id] = c.b <=> Above(c.b, c.a)
                        /\ c.op = "MIN" =>
                              /\ remap[c.id] = c.b <=> Above(c.a, c.b)
                              /\ remap[c.id] = c.a <=> Above(c.b, c.a)
                        /\ (~Above(c.a, c.b) /\ ~Above(c.b, c.a)) =>
                              /\ remap[c.id] = 0 /\ ~disabled[c.id]
                              /\ WasLive(c.a) /\ WasLive(c.b)
                        /\ remap[c.id] # 0 =>
                              /\ disabled[c.id]
                              /\ WasLive(remap[c.id])
            /\ \A s \in DOMAIN disabled :
                  (WasLive(s) /\ s # tapes[tape - 1].i) =>
                      \E k \in 1..Len(t) : MakesLive(t[k], s)
            /\ \A k \in 1..Len(t) : ~WasLive(t[k].id) => remap[t[k].id] = 0

\* a push() in which a MAX clause collapsed to its first operand, leaving
\* the other operand's clause not live, while a MIN clause whose operand
\* intervals touch was kept
C20_Witness ==
    /\ JustPushedInterval
    /\ \E k, l \in 1..Len(tapes[tape - 1].t) :
          LET c == tapes[tape - 1].t[k]
              d == tapes[tape - 1].t[l]
          IN  /\ c.op = "MAX" /\ remap[c.id] = c.a /\ ~WasLive(c.b)
              /\ d.op = "MIN" /\ ~disabled[d.id] /\ remap[d.id] = 0
              /\ result.i[d.a].upper = result.i[d.b].lower

(***************************************************************************)
(* Properties, C21 to C27.                                                 *)
(***************************************************************************)
\* the slot the constructor gives the node at position k of flat
\* ("clauses[m.id()] = id--" with id starting at flat.size())
NodeSlot(k) == Len(flat) - k + 1

\* the ids of the clauses of the base tape
BaseClauseIds == {tapes[1].t[k].id : k \in 1..Len(tapes[1].t)}

\* the positions of the nodes of flat with the opcodes ops
NodesOf(ops) == {k \in 1..Len(flat) : flat[k].op \in ops}

\* the axis slots that belong to nodes of the tree
AxisNodeSlots == {X, Y, Z} \cap 1..Len(flat)

\* C21: the n nodes have the slots 1..n, the root has slot 1 and no node has
\* slot 0; a slot in 1..n is the id of exactly one clause of the base tape
\* when its node is an interior node, and otherwise holds a constant, a
\* variable or an axis, never two of these; the base tape has one clause
\* per interior node; the constructor's assertions hold.
C21_SlotsPartitioned ==
    LET n      == Len(flat)
        consts == {NodeSlot(k) : k \in NodesOf({"CONST"})}
    IN  /\ {NodeSlot(k) : k \in 1..n} = 1..n
        /\ NodeSlot(n) = 1 /\ tapes[1].i = 1
        /\ \A k \in 1..n :
              LET s == NodeSlot(k)
                  w == {j \in 1..Len(tapes[1].t) : tapes[1].t[j].id = s}
              IN  /\ flat[k].op \notin LeafOps =>
                        /\ Cardinality(w) = 1
                        /\ \A j \in w : tapes[1].t[j].op = flat[k].op
                  /\ flat[k].op \in LeafOps => w = {}
                  /\ flat[k].op = "VAR" <=> (s \in DOMAIN vars /\ vars[s] = k)
                  /\ flat[k].op = "VAR_X" <=> X = s
                  /\ flat[k].op = "VAR_Y" <=> Y = s
                  /\ flat[k].op = "VAR_Z" <=> Z = s
                  /\ flat[k].op = "CONST" => result.f[s] = flat[k].value
        /\ BaseClauseIds \cup consts \cup DOMAIN vars \cup AxisNodeSlots = 1..n
        /\ BaseClauseIds \cap (consts \cup DOMAIN vars \cup AxisNodeSlots) = {}
        /\ consts \cap (DOMAIN vars \cup AxisNodeSlots) = {}
        /\ DOMAIN vars \cap AxisNodeSlots = {}
        /\ Len(tapes[1].t) = Cardinality(NodesOf({"ADD", "MUL", "MIN", "MAX", "SUB",
                                                   "MOD", "SQUARE", "NEG"}))
        /\ Len(tapes[1].t) = n - Cardinality(NodesOf(LeafOps))

\* the evaluator of min(m - x, m * x) with the shared subtree m, after an
\* evaluation: six nodes, four clauses, one constant and one axis
C21_Witness ==
    /\ flat = TreeShared
    /\ last.op = "eval"
    /\ Len(tapes[1].t) = 4
    /\ X = 6 /\ result.f[5] = 1

\* C22: whatever axes the tree references, the axis slots X, Y and Z are
\* non-zero, pairwise distinct, different from the slot of every node that
\* is not that axis, and inside the result arena and the disabled and remap
\* arrays.
C22_AxisSlotsAllocated ==
    /\ X # 0 /\ Y # 0 /\ Z # 0
    /\ X # Y /\ X # Z /\ Y # Z
    /\ \A k \in 1..Len(flat) :
          /\ flat[k].op # "VAR_X" => X # NodeSlot(k)
          /\ flat[k].op # "VAR_Y" => Y # NodeSlot(k)
          /\ flat[k].op # "VAR_Z" => Z # NodeSlot(k)
    /\ \A s \in {X, Y, Z} :
          /\ s \in DOMAIN result.f /\ s \in DOMAIN result.i
          /\ s \in DOMAIN result.dx /\ s \in DOMAIN result.j
          /\ s \in DOMAIN disabled /\ s \in DOMAIN remap

\* the evaluator of v + w, which references no axis, after an evaluation
\* has written the point into the three allocated slots
C22_Witness ==
    /\ flat = TreeTwoVars
    /\ last.op = "eval"
    /\ X > Len(flat) /\ Y > Len(flat) /\ Z > Len(flat)
    /\ result.f[X] = 1

\* the clauses, root and type of the tapes at the depths ds are unchanged
TapesKept(ds) ==
    \A d \in ds : /\ tapes'[d].t = tapes[d].t
                  /\ tapes'[d].i = tapes[d].i
                  /\ tapes'[d].type = tapes[d].type

\* C23: the number of allocated tapes never decreases; it grows, by one,
\* only in a step that moves the cursor onto the new last tape, and the
\* cursor never passes the last tape (so the number of tapes is the highest
\* position the cursor has reached); a push to a depth that has a tape
\* keeps the number of tapes and rewrites that tape; pop changes only the
\* cursor; no step changes the clauses, root or type of a tape at or below
\* the cursor.
C23_TapesAllocatedOnce ==
    [][/\ Len(tapes') >= Len(tapes)
       /\ tape' <= Len(tapes')
       /\ Len(tapes') # Len(tapes) =>
             /\ Len(tapes') = Len(tapes) + 1
             /\ tape = Len(tapes) /\ tape' = Len(tapes')
       /\ (tape' = tape + 1 /\ tape < Len(tapes)) =>
             /\ Len(tapes') = Len(tapes)
             /\ tapes'[tape'].type \in {"INTERVAL", "SPECIALIZED", "FEATURE"}
             /\ Len(tapes'[tape'].t) <= Len(tapes[tape].t)
             /\ \A k \in 1..Len(tapes'[tape'].t) :
                   \E j \in 1..Len(tapes[tape].t) :
                       tapes'[tape'].t[k].id = tapes[tape].t[j].id
             /\ \A d \in (tape' + 1)..Len(tapes) : tapes'[d] = tapes[d]
       /\ last'.op = "pop" =>
             /\ tapes' = tapes /\ result' = result
             /\ disabled' = disabled /\ remap' = remap
             /\ tape' \in {tape, tape - 1}
       /\ TapesKept(1..tape)]_allvars

\* a push has just rewritten a tape that an earlier, deeper excursion of the
\* cursor had allocated, with another type and fewer clauses than it held
C23_Witness ==
    /\ JustPushed
    /\ Len(tapes) > tape
    /\ tapes[tape].type # tapes[tape + 1].type
    /\ Len(tapes[tape].t) < Len(tapes[tape + 1].t)

\* the ids of the clauses of a tape
IdsOf(t) == {t[k].id : k \in 1..Len(t)}

\* the slots reached from the slots S in at most n steps along the operand
\* references of the clauses of t
RECURSIVE ReachedFrom(_, _, _)
ReachedFrom(t, S, n) ==
    IF n = 0 THEN S
    ELSE ReachedFrom(t,
                     S \cup {t[k].a : k \in {j \in 1..Len(t) : t[j].id \in S}}
                       \cup {t[k].b : k \in {j \in 1..Len(t) : t[j].id \in S}},
                     n - 1)

\* C24: on every tape of the stack the root and the operands of every
\* clause are leaf slots (slot 0, a constant, a variable or an axis: the
\* slots that are not clause ids of the base tape) or ids of clauses of that
\* same tape, and every clause of the tape is reached from the tape's root
\* along operand references.
C24_TapesClosedAndReachable ==
    \A d \in 1..Len(tapes) :
        LET t   == tapes[d].t
            ok(s) == s \in IdsOf(t) \/ s \notin BaseClauseIds
        IN  /\ ok(tapes[d].i)
            /\ \A k \in 1..Len(t) : ok(t[k].a) /\ ok(t[k].b)
            /\ IdsOf(t) \subseteq ReachedFrom(t, {tapes[d].i}, Len(t))

\* a push has elided a clause that a retained clause of the parent read,
\* and the retained clause now reads a clause that is still on the tape
C24_Witness ==
    /\ JustPushed
    /\ Len(tapes[tape].t) > 1
    /\ \E k \in 1..Len(tapes[tape - 1].t) :
          LET c == tapes[tape - 1].t[k]
          IN  /\ c.id \in IdsOf(tapes[tape].t)
              /\ c.a \in IdsOf(tapes[tape - 1].t) \ IdsOf(tapes[tape].t)
              /\ \E j \in 1..Len(tapes[tape].t) :
                    /\ tapes[tape].t[j].id = c.id
                    /\ tapes[tape].t[j].a \in IdsOf(tapes[tape].t)

\* C25: values() terminates for every tape and every value in the leaf
\* slots: no evaluation enters a MOD loop "while (out < 0) out += b" with
\* out < 0 and b < 0, which the loop cannot leave.
C25_ValuesTerminates == err # "values_hang"

\* the number of MIN and MAX clauses of a tape
MinMaxCount(t) == Cardinality({k \in 1..Len(t) : IsMinMax(t[k].op)})

\* inside the worklist loop no feature on todo or done has more choices
\* than the specialized tape has MIN/MAX clauses
ChoicesBounded ==
    fa.pc = "loop" =>
        /\ \A j \in 1..Len(fa.todo) :
              Len(fa.todo[j].choices) <= MinMaxCount(tapes[tape].t)
        /\ \A j \in 1..Len(fa.done) :
              Len(fa.done[j].choices) <= MinMaxCount(tapes[tape].t)

\* an iteration takes the front feature off todo and appends at most two
\* successors, each with one choice more than the feature taken
TodoReplaced ==
    (fa.pc = "loop" /\ fa'.pc = "loop") =>
        /\ err' = "ok"
        /\ Len(fa'.todo) \in (Len(fa.todo) - 1)..(Len(fa.todo) + 1)
        /\ SubSeq(fa'.todo, 1, Len(fa.todo) - 1) = Tail(fa.todo)
        /\ \A j \in Len(fa.todo)..Len(fa'.todo) :
              Len(fa'.todo[j].choices) = Len(Head(fa.todo).choices) + 1

C27_CallsBalanced ==
    [][/\ (fa.pc = "idle" /\ fa'.pc = "loop") =>
             /\ fa'.depth = tape /\ tape' = tape + 1
             /\ tapes'[tape'].type = "SPECIALIZED"
             /\ TapesKept(1..tape)
       /\ fa.pc = "loop" => tape = fa.depth + 1
       /\ (fa.pc = "loop" /\ fa'.pc = "loop") =>
             /\ tape' = tape /\ fa'.depth = fa.depth
             /\ TapesKept(1..tape)
             /\ Len(tapes') = Max2(Len(tapes), tape + 1)
             /\ tapes'[tape + 1].type = "FEATURE"
             /\ \A d \in (tape + 2)..Len(tapes) : tapes'[d] = tapes[d]
       /\ (fa.pc = "loop" /\ fa'.pc = "idle") =>
             /\ tape' = fa.depth
             /\ tapes' = tapes
       /\ (fa.pc = "idle" /\ fa'.pc = "idle" /\ last'.op = "isInside") =>
             /\ tape' = tape
             /\ tapes' = tapes]_allvars

\* a call made with the cursor above the base tape has returned after more
\* than one iteration of the loop, and the cursor is where it was
C27_Witness ==
    /\ fa.pc = "idle"
    /\ last.op \in {"featuresAt", "isInside"}
    /\ Len(fa.done) >= 2
    /\ tape = 2
    /\ Len(tapes) = 4
    /\ tapes[3].type = "SPECIALIZED"
    /\ tapes[4].type = "FEATURE"

=============================================================================
